---- MODULE Spec2Model ----
(***************************************************************************)
(* A model of the lox tree-walking interpreter (DarthMax/                  *)
(* crafting_interpreters, directory lox): the source iterator, the         *)
(* scanner, the recursive-descent parser, the environment chain and the    *)
(* evaluator, driven line by line as main.rs's REPL drives them.           *)
(*                                                                         *)
(* Conventions.  A character is a string naming it: an ASCII character is  *)
(* named by itself ("a"), any other by its code point ("U+00E9").  A       *)
(* source text is a sequence of characters.  Rust's Option is a sequence   *)
(* of length at most one: None is << >>, Some(x) is <<x>>.                 *)
(***************************************************************************)
EXTENDS Integers, Sequences, FiniteSets, TLC

VARIABLES
    session,    \* which set of input lines the REPL user types from
    envs,       \* the heap of environments; envs[1] is the REPL's global one
    line,       \* the line submitted last ("" before the first)
    outcome,    \* what run() made of it
    out,        \* the lines that run printed to stdout through print
    scanSrc,    \* the text handed to Scanner::scan
    scanOut,    \* Some(what scan made of scanSrc), None before the scan
    envOp,      \* Some(the last operation on the environment chain), or None
    parseOut,   \* Some(what parse made of the first tokens of line), or None
    iter        \* a SourceIterator over scanSrc and what its next() returned

vars == <<session, envs, line, outcome, out, scanSrc, scanOut, envOp, parseOut, iter>>

None == << >>
Some(x) == <<x>>

\* Let([x \in {e} |-> b]) is b with x standing for the value of e, which is
\* computed once, however often b mentions x.
Let(f) == f[CHOOSE x \in DOMAIN f : TRUE]

(***************************************************************************)
(* Characters                                                              *)
(***************************************************************************)
Digits == {"0", "1", "2", "3", "4", "5", "6", "7", "8", "9"}

Letters == {"a", "b", "c", "d", "e", "f", "g", "h", "i", "j", "k", "l", "m",
            "n", "o", "p", "q", "r", "s", "t", "u", "v", "w", "x", "y", "z"}

\* U+00E9 (e acute) is alphabetic, U+00B2 (superscript two) is numeric (No);
\* both take two bytes in UTF-8.
TwoByteChars == {"U+00E9", "U+00B2"}

len_utf8(c) == IF c \in TwoByteChars THEN 2 ELSE 1

is_numeric(c) == c \in Digits \cup {"U+00B2"}

is_alphanumeric(c) == c \in Letters \cup {"U+00E9"} \/ is_numeric(c)

\* An ASCII text written as a TLA+ string, as a sequence of characters.
Chars(s) == [i \in 1..Len(s) |-> SubSeq(s, i, i)]

RECURSIVE Text(_)
\* The characters of a lexeme joined into one string (a name, a keyword).
Text(cs) == IF cs = << >> THEN "" ELSE Head(cs) \o Text(Tail(cs))

\* The indices of the characters of cs that take two bytes.
WideIndices(cs) == {j \in 1..Len(cs) : len_utf8(cs[j]) = 2}

\* Byte offset of the i-th character (1-based) of a text whose two-byte
\* characters sit at the indices wide: one byte for each character before it,
\* and one more for each two-byte one.
ByteOffset(wide, i) == (i - 1) + Cardinality({j \in wide : j < i})

\* The character index (1-based, n + 1 for the end) at byte offset b of a text
\* of n characters, or 0 when b is not a character boundary of it.
CharIndexAt(n, wide, b) ==
    IF b < 0 THEN 0
    ELSE Let([at \in {{i \in (b + 1 - Cardinality(wide))..(b + 1) :
                           i >= 1 /\ i <= n + 1 /\ ByteOffset(wide, i) = b}} |->
             IF at = {} THEN 0 ELSE CHOOSE i \in at : TRUE])

is_char_boundary(n, wide, b) == CharIndexAt(n, wide, b) # 0

(***************************************************************************)
(* SourceIterator (scanner/source_iterator.rs)                             *)
(***************************************************************************)
Entry(value, position) == [value |-> value, position |-> position]

\* wide is derived from source: where its two-byte characters are.
SourceIterator_new(text) ==
    [source |-> text, wide |-> WideIndices(text), chars |-> text, peek |-> None,
     peek_next |-> None, pos |-> 0]

\* chars.next(): the front of the remaining characters, if any.
chars_next(it) ==
    IF it.chars = << >>
    THEN [it |-> it, c |-> None]
    ELSE [it |-> [it EXCEPT !.chars = Tail(it.chars)], c |-> Some(Head(it.chars))]

\* A next that empties the first lookahead slot and leaves the second where
\* it is.
iter_next_unshifted(it) ==
    Let([taken \in {IF it.peek # None
                    THEN [it |-> [it EXCEPT !.peek = None], c |-> it.peek[1]]
                    ELSE IF it.peek_next # None
                    THEN [it |-> [it EXCEPT !.peek_next = None], c |-> it.peek_next[1]]
                    ELSE chars_next(it)} |->
        IF taken.c = None
        THEN [it |-> taken.it, e |-> None]
        ELSE [it |-> [taken.it EXCEPT !.pos = taken.it.pos + len_utf8(taken.c[1])],
              e  |-> Some(Entry(taken.c[1], taken.it.pos))]])

\* Iterator::next: [it |-> the iterator after the call, e |-> Option<Entry>].
iter_next(it) ==
    Let([taken \in {IF it.peek # None
                    THEN [it |-> [it EXCEPT !.peek = it.peek_next, !.peek_next = None],
                          c  |-> it.peek[1]]
                    ELSE IF it.peek_next # None
                    THEN [it |-> [it EXCEPT !.peek_next = None], c |-> it.peek_next[1]]
                    ELSE chars_next(it)} |->
        IF taken.c = None
        THEN [it |-> taken.it, e |-> None]
        ELSE [it |-> [taken.it EXCEPT !.pos = taken.it.pos + len_utf8(taken.c[1])],
              e  |-> Some(Entry(taken.c[1], taken.it.pos))]])

\* A peek that fetches a character whether or not the slot holds one.
iter_peek_refetching(it) ==
    Let([n \in {chars_next(it)} |->
        [it |-> [n.it EXCEPT !.peek = Some(n.c)], c |-> n.c]])

\* peek: fills the one-character lookahead slot when it is empty.
iter_peek(it) ==
    IF it.peek # None
    THEN [it |-> it, c |-> it.peek[1]]
    ELSE Let([n \in {chars_next(it)} |->
             [it |-> [n.it EXCEPT !.peek = Some(n.c)], c |-> n.c]])

\* peek_next: peeks first, then fills the second lookahead slot.
iter_peek_next(it) ==
    Let([p \in {iter_peek(it).it} |->
        IF p.peek_next # None
        THEN [it |-> p, c |-> p.peek_next[1]]
        ELSE Let([n \in {chars_next(p)} |->
                 [it |-> [n.it EXCEPT !.peek_next = Some(n.c)], c |-> n.c]])])

\* A next_match that consumes the character it looked at, match or not.
next_match_consuming(it, expected) ==
    Let([p \in {iter_peek(it)} |->
        [it |-> iter_next(p.it).it, b |-> p.c # None /\ p.c[1] = expected]])

next_match(it, expected) ==
    Let([p \in {iter_peek(it)} |->
        IF p.c # None /\ p.c[1] = expected
        THEN [it |-> iter_next(p.it).it, b |-> TRUE]
        ELSE [it |-> p.it, b |-> FALSE]])

RECURSIVE scan_until_before(_, _)
\* A scan_until that stops in front of the target.
scan_until_before(it, target) ==
    Let([n \in {iter_next(it)} |->
        IF n.e = None THEN n
        ELSE IF n.e[1].value = target THEN [it |-> it, e |-> n.e]
        ELSE scan_until_before(n.it, target)])

RECURSIVE scan_until(_, _)
scan_until(it, target) ==
    Let([n \in {iter_next(it)} |->
        IF n.e = None THEN n
        ELSE IF n.e[1].value = target THEN n
        ELSE scan_until(n.it, target)])

\* substring(from, to) is &source[from..=to]: Rust panics when from or to + 1 is
\* not a character boundary of the text, or when the range is out of order.
substring(it, from, to) ==
    Let([n \in {Len(it.source)} |->
        IF /\ is_char_boundary(n, it.wide, from)
           /\ is_char_boundary(n, it.wide, to + 1)
           /\ from <= to + 1
        THEN [panic |-> FALSE,
              value |-> SubSeq(it.source, CharIndexAt(n, it.wide, from),
                               CharIndexAt(n, it.wide, to + 1) - 1)]
        ELSE [panic |-> TRUE, value |-> << >>]])

(***************************************************************************)
(* Tokens (token.rs, position.rs)                                          *)
(***************************************************************************)
Position_new(absolute, length) == [absolute |-> absolute, length |-> length]

end_position(p) == p.absolute + p.length

\* Position::union: the smallest span containing both.
union(p, other) ==
    Let([start \in {IF p.absolute <= other.absolute THEN p.absolute ELSE other.absolute} |->
    Let([end \in {IF end_position(p) >= end_position(other)
                  THEN end_position(p) ELSE end_position(other)} |->
        Position_new(start, end - start)])])

\* A token type is its variant name k and, for Identifier, StringToken and
\* Number, the payload value.
TT(k) == [k |-> k, value |-> ""]

Token_new(token_type, entry, length) ==
    [token_type |-> token_type, position |-> Position_new(entry.position, length)]

Keywords == {"and", "class", "else", "false", "for", "fun", "if", "nil", "or",
             "print", "return", "super", "this", "true", "var", "while"}

\* The keyword's variant: its name with the first letter in upper case.
KeywordType(w) ==
    CASE w = "and" -> "And"       [] w = "class" -> "Class" [] w = "else" -> "Else"
      [] w = "false" -> "False"   [] w = "for" -> "For"     [] w = "fun" -> "Fun"
      [] w = "if" -> "If"         [] w = "nil" -> "Nil"     [] w = "or" -> "Or"
      [] w = "print" -> "Print"   [] w = "return" -> "Return"
      [] w = "super" -> "Super"   [] w = "this" -> "This"   [] w = "true" -> "True"
      [] w = "var" -> "Var"       [] w = "while" -> "While"

DigitVal(c) ==
    CASE c = "0" -> 0 [] c = "1" -> 1 [] c = "2" -> 2 [] c = "3" -> 3 [] c = "4" -> 4
      [] c = "5" -> 5 [] c = "6" -> 6 [] c = "7" -> 7 [] c = "8" -> 8 [] c = "9" -> 9

RECURSIVE DecimalVal(_)
DecimalVal(cs) ==
    IF cs = << >> THEN 0
    ELSE 10 * DecimalVal(SubSeq(cs, 1, Len(cs) - 1)) + DigitVal(cs[Len(cs)])

\* str::parse::<f64> on a lexeme of scan_number (numeric characters with at most
\* one inner "."): it fails on any character that is not an ASCII digit or ".".
\* A whole number is its integer; a number with a fraction keeps both parts.
parse_f64(cs) ==
    IF \E i \in 1..Len(cs) : cs[i] \notin Digits \cup {"."}
    THEN [ok |-> FALSE, value |-> 0]
    ELSE Let([dots \in {{i \in 1..Len(cs) : cs[i] = "."}} |->
             IF dots = {}
             THEN [ok |-> TRUE, value |-> DecimalVal(cs)]
             ELSE Let([d \in {CHOOSE i \in dots : TRUE} |->
                      [ok |-> TRUE,
                       value |-> [whole |-> DecimalVal(SubSeq(cs, 1, d - 1)),
                                  frac  |-> Text(SubSeq(cs, d + 1, Len(cs)))]]])])

(***************************************************************************)
(* Scanner (scanner/mod.rs).  A scan result is the tokens pushed so far,   *)
(* the diagnostic printed before the loop broke ("" when none), and panic: *)
(* TRUE when the scan aborted instead of returning.                        *)
(***************************************************************************)
ScanResult(tokens, error, panic) == [tokens |-> tokens, error |-> error, panic |-> panic]

\* [it, ok, panic, token]: ok is FALSE for the "Unterminated String" error.
scan_string(it, first_entry) ==
    Let([u \in {scan_until(it, "\"")} |->
        IF u.e = None
        THEN [it |-> u.it, ok |-> FALSE, panic |-> FALSE, token |-> None]
        ELSE Let([entry \in {u.e[1]} |->
             Let([sub \in {substring(u.it, first_entry.position + 1, entry.position - 1)} |->
                 [it |-> u.it, ok |-> TRUE, panic |-> sub.panic,
                  token |-> Some(Token_new([k |-> "StringToken", value |-> Text(sub.value)],
                                           first_entry,
                                           entry.position + 1 - first_entry.position))]])])])

RECURSIVE scan_number_loop(_, _, _)
scan_number_loop(it, found_dot, last_entry) ==
    Let([p1 \in {iter_peek(it)} |->
    Let([p2 \in {iter_peek_next(p1.it)} |->
    Let([c \in {p1.c} |->
    Let([d \in {p2.c} |->
        IF c # None /\ is_numeric(c[1])
        THEN Let([n \in {iter_next(p2.it)} |->  scan_number_loop(n.it, found_dot, n.e[1])])
        ELSE IF c # None /\ d # None /\ c[1] = "." /\ ~found_dot /\ is_numeric(d[1])
        THEN Let([n \in {iter_next(p2.it)} |->  scan_number_loop(n.it, TRUE, n.e[1])])
        ELSE [it |-> p2.it, last_entry |-> last_entry]])])])])

scan_number(it, first_entry) ==
    Let([l \in {scan_number_loop(it, FALSE, first_entry)} |->
    Let([sub \in {substring(l.it, first_entry.position, l.last_entry.position)} |->
    Let([parsed \in {parse_f64(sub.value)} |->
        [it |-> l.it, panic |-> sub.panic \/ ~parsed.ok,
         token |-> Token_new([k |-> "Number", value |-> parsed.value], first_entry,
                             l.last_entry.position + len_utf8(l.last_entry.value)
                                 - first_entry.position)]])])])

RECURSIVE scan_identifier_loop(_, _)
scan_identifier_loop(it, last_entry) ==
    Let([p \in {iter_peek(it)} |->
        IF p.c = None \/ ~is_alphanumeric(p.c[1])
        THEN [it |-> p.it, last_entry |-> last_entry]
        ELSE Let([n \in {iter_next(p.it)} |->  scan_identifier_loop(n.it, n.e[1])])])

scan_identifier(it, first_entry) ==
    Let([l \in {scan_identifier_loop(it, first_entry)} |->
    Let([sub \in {substring(l.it, first_entry.position, l.last_entry.position)} |->
    Let([value \in {Text(sub.value)} |->
        [it |-> l.it, panic |-> sub.panic,
         token |-> Token_new(IF value \in Keywords THEN TT(KeywordType(value))
                             ELSE [k |-> "Identifier", value |-> value],
                             first_entry,
                             l.last_entry.position + len_utf8(l.last_entry.value)
                                 - first_entry.position)]])])])

SingleCharType(c) ==
    CASE c = "(" -> "LeftParent" [] c = ")" -> "RightParent" [] c = "{" -> "LeftBrace"
      [] c = "}" -> "RightBrace" [] c = "," -> "Comma"       [] c = "." -> "Dot"
      [] c = "-" -> "Minus"      [] c = "+" -> "Plus"        [] c = ";" -> "Semicolon"
      [] c = "*" -> "Star"

OneOrTwoType(c, two) ==
    CASE c = "!" -> (IF two THEN "BangEqual" ELSE "Bang")
      [] c = "=" -> (IF two THEN "EqualEqual" ELSE "Equal")
      [] c = "<" -> (IF two THEN "LessEqual" ELSE "Less")
      [] c = ">" -> (IF two THEN "GreaterEqual" ELSE "Greater")

\* One iteration of scan's loop: [done, it, tokens, error, panic].
ScanStep(done, it, tokens, error, panic) ==
    [done |-> done, it |-> it, tokens |-> tokens, error |-> error, panic |-> panic]

scan_step(it, tokens) ==
    Let([n \in {iter_next(it)} |->
        IF n.e = None THEN ScanStep(TRUE, n.it, tokens, "", FALSE)
        ELSE
        Let([e \in {n.e[1]} |->
        Let([value \in {e.value} |->
            IF value \in {"(", ")", "{", "}", ",", ".", "-", "+", ";", "*"}
            THEN ScanStep(FALSE, n.it,
                          Append(tokens, Token_new(TT(SingleCharType(value)), e, 1)),
                          "", FALSE)
            ELSE IF value \in {"!", "=", "<", ">"}
            THEN Let([m \in {next_match(n.it, "=")} |->
                     ScanStep(FALSE, m.it,
                              Append(tokens, Token_new(TT(OneOrTwoType(value, m.b)), e,
                                                       IF m.b THEN 2 ELSE 1)),
                              "", FALSE)])
            ELSE IF value = "/"
            THEN Let([m \in {next_match(n.it, "/")} |->
                     IF m.b THEN ScanStep(FALSE, scan_until(m.it, "\n").it, tokens, "", FALSE)
                     ELSE ScanStep(FALSE, m.it,
                                   Append(tokens, Token_new(TT("Slash"), e, 1)), "", FALSE)])
            ELSE IF value \in {" ", "\r", "\t", "\n"}
            THEN ScanStep(FALSE, n.it, tokens, "", FALSE)
            ELSE IF value = "\""
            THEN Let([s \in {scan_string(n.it, e)} |->
                     IF ~s.ok THEN ScanStep(TRUE, s.it, tokens, "Unterminated String", FALSE)
                     ELSE IF s.panic THEN ScanStep(TRUE, s.it, tokens, "", TRUE)
                     ELSE ScanStep(FALSE, s.it, Append(tokens, s.token[1]), "", FALSE)])
            ELSE IF is_numeric(value)
            THEN Let([s \in {scan_number(n.it, e)} |->
                     IF s.panic THEN ScanStep(TRUE, s.it, tokens, "", TRUE)
                     ELSE ScanStep(FALSE, s.it, Append(tokens, s.token), "", FALSE)])
            ELSE IF is_alphanumeric(value)
            THEN Let([s \in {scan_identifier(n.it, e)} |->
                     IF s.panic THEN ScanStep(TRUE, s.it, tokens, "", TRUE)
                     ELSE ScanStep(FALSE, s.it, Append(tokens, s.token), "", FALSE)])
            ELSE ScanStep(TRUE, n.it, tokens, "Unrecognized Character", FALSE)])])])

RECURSIVE scan_steps(_, _, _)
\* Up to k iterations of the loop.
scan_steps(it, tokens, k) ==
    Let([r \in {scan_step(it, tokens)} |->
        IF r.done \/ k <= 1 THEN r ELSE scan_steps(r.it, r.tokens, k - 1)])

RECURSIVE scan_loop(_, _)
\* loop { .. } of scan, taken sixteen iterations at a time.
scan_loop(it, tokens) ==
    Let([r \in {scan_steps(it, tokens, 16)} |->
        IF r.done THEN ScanResult(r.tokens, r.error, r.panic)
        ELSE scan_loop(r.it, r.tokens)])

\* Scanner::scan over the text `code`.
scan(code) == scan_loop(SourceIterator_new(code), << >>)

(***************************************************************************)
(* AST (expression.rs, statement.rs)                                       *)
(***************************************************************************)
ExpressionNode_new(expression, position) ==
    [expression |-> expression, position |-> position]

Literal(k, value) == [k |-> "Literal", lit |-> [k |-> k, value |-> value]]

\* TryFrom<&TokenType> for BinaryOp, LogicalOp and UnaryOp.
BinaryOp_try_from(k) ==
    CASE k = "EqualEqual" -> Some("Equals")
      [] k = "BangEqual" -> Some("NotEquals")
      [] k = "Greater" -> Some("GreaterThan")
      [] k = "GreaterEqual" -> Some("GreaterThanOrEquals")
      [] k = "Less" -> Some("LessThan")
      [] k = "LessEqual" -> Some("LessThanOrEquals")
      [] k = "Minus" -> Some("Subtract")
      [] k = "Plus" -> Some("Add")
      [] k = "Slash" -> Some("Divide")
      [] k = "Star" -> Some("Multiply")
      [] OTHER -> None

LogicalOp_try_from(k) ==
    CASE k = "And" -> Some("And") [] k = "Or" -> Some("Or") [] OTHER -> None

UnaryOp_try_from(k) ==
    CASE k = "Bang" -> Some("Not") [] k = "Minus" -> Some("Negative") [] OTHER -> None

(***************************************************************************)
(* Parse errors (error.rs)                                                 *)
(***************************************************************************)
\* Display for TokenType.
TokenType_to_string(k) ==
    CASE k = "Plus" -> "+" [] k = "Star" -> "*" [] k = "LeftParent" -> "("
      [] k = "RightParent" -> ")" [] k = "Semicolon" -> ";" [] k = "Eof" -> "EOF"
      [] OTHER -> ""

illegal_token(found) ==
    [kind |-> "IllegalToken", found |-> TokenType_to_string(found.token_type.k),
     position |-> found.position]

unexpected_token(found, expected) ==
    [kind |-> "UnexpectedToken", found |-> TokenType_to_string(found.token_type.k),
     expected |-> expected, position |-> found.position]

unexpected_token_raw(found, expected, position) ==
    [kind |-> "UnexpectedToken", found |-> TokenType_to_string(found),
     expected |-> TokenType_to_string(expected), position |-> position]

unexpected_end_of_stream == [kind |-> "UnexpectedEndOfTokenStream"]

unclosed_delimiter(start_position, end_position_) ==
    [kind |-> "UnclosedDelimiter", start_position |-> start_position,
     end_position |-> end_position_]

\* An InvalidAssignmentTarget that does not say where the target is.
invalid_assignment_target_unplaced(position) ==
    [kind |-> "InvalidAssignmentTarget", position |-> Position_new(0, 0)]

invalid_assignment_target(position) ==
    [kind |-> "InvalidAssignmentTarget", position |-> position]

\* A Rust panic (unwrap on None, todo!(), a slice index off a boundary): the
\* process aborts; no ParseError or RuntimeError is returned.
Panic(what) == [kind |-> "panic", what |-> what]

(***************************************************************************)
(* Parser (parser.rs).  A TokenIter is the token sequence, the index of    *)
(* the next token and size, the end offset of the last token.  Every       *)
(* parsing function returns [err, v, i]: err is None and v the parsed      *)
(* value with the cursor at i, or err is Some(error).                      *)
(***************************************************************************)
POk(v, i) == [err |-> None, v |-> v, i |-> i]
PErr(e) == [err |-> Some(e), v |-> None, i |-> 0]

TokenIter_peek(T, i) == IF i <= Len(T.toks) THEN Some(T.toks[i]) ELSE None

\* peek() is Some token of variant k.
PeekIs(T, i, k) == i <= Len(T.toks) /\ T.toks[i].token_type.k = k

\* _consume with the matcher "the token's variant is k".
consume_(T, i, k, expected, eof_error) ==
    IF i > Len(T.toks) THEN PErr(eof_error)
    ELSE IF T.toks[i].token_type.k = k THEN POk(T.toks[i], i + 1)
    ELSE PErr(unexpected_token(T.toks[i], expected))

consume(T, i, k) ==
    consume_(T, i, k, TokenType_to_string(k),
             unexpected_token_raw("Eof", "Semicolon", Position_new(T.size, 1)))

consume_closing_delimiter(T, i, k, opening_delimiter_position) ==
    consume_(T, i, k, TokenType_to_string(k),
             unclosed_delimiter(opening_delimiter_position, Position_new(T.size, 1)))

consume_identifier(T, i) ==
    Let([r \in {consume_(T, i, "Identifier", "Identifier", unexpected_end_of_stream)} |->
        IF r.err # None THEN r ELSE POk(r.v.token_type.value, r.i)])

RECURSIVE declaration(_, _), function(_, _), function_params(_, _, _), var(_, _),
          statement(_, _), if_statement(_, _), while_statement(_, _),
          for_statement(_, _), for_clause(_, _), return_statement(_, _),
          print_statement(_, _), block(_, _, _), block_loop(_, _, _),
          expression_statement(_, _), expression(_, _), assignment(_, _),
          unary(_, _), call(_, _), call_loop(_, _, _), call_args(_, _, _, _),
          primary(_, _), parse_bi_op(_, _, _), parse_bi_op_loop(_, _, _, _)

declaration(T, i) ==
    IF i > Len(T.toks) THEN PErr(Panic("todo"))
    ELSE IF PeekIs(T, i, "Fun") THEN function(T, i + 1)
    ELSE IF PeekIs(T, i, "Var") THEN var(T, i + 1)
    ELSE statement(T, i)

\* The loop of function() that collects the parameter names.
function_params(T, i, parameters) ==
    Let([id \in {consume_identifier(T, i)} |->
        IF id.err # None THEN id
        ELSE IF PeekIs(T, id.i, "RightParent")
        THEN POk(Append(parameters, id.v), id.i + 1)
        ELSE Let([c \in {consume(T, id.i, "Comma")} |->
                 IF c.err # None THEN c
                 ELSE function_params(T, c.i, Append(parameters, id.v))])])

function(T, i) ==
    Let([name \in {consume_identifier(T, i)} |->
        IF name.err # None THEN name ELSE
        Let([lp \in {consume(T, name.i, "LeftParent")} |->
            IF lp.err # None THEN lp ELSE
            Let([ps \in {IF PeekIs(T, lp.i, "RightParent") THEN POk(<< >>, lp.i + 1)
                         ELSE function_params(T, lp.i, << >>)} |->
                IF ps.err # None THEN ps ELSE
                Let([lb \in {consume(T, ps.i, "LeftBrace")} |->
                    IF lb.err # None THEN lb ELSE
                    Let([body \in {block(T, lb.i, lb.v.position)} |->
                        IF body.err # None THEN body
                        ELSE POk([k |-> "Function", name |-> name.v,
                                  parameters |-> ps.v, body |-> body.v], body.i)])])])])])

var(T, i) ==
    Let([id \in {consume_identifier(T, i)} |->
        IF id.err # None THEN id ELSE
        Let([init \in {IF PeekIs(T, id.i, "Equal")
                       THEN Let([e \in {expression(T, id.i + 1)} |->
                                IF e.err # None THEN e ELSE POk(Some(e.v), e.i)])
                       ELSE POk(None, id.i)} |->
            IF init.err # None THEN init ELSE
            Let([sc \in {consume(T, init.i, "Semicolon")} |->
                IF sc.err # None THEN sc
                ELSE POk([k |-> "Var", name |-> id.v, initializer |-> init.v], sc.i)])])])

\* A statement that takes the end of the tokens for an empty block.
statement_or_nothing(T, i) ==
    IF i > Len(T.toks) THEN POk([k |-> "Block", statements |-> << >>], i)
    ELSE IF PeekIs(T, i, "If") THEN if_statement(T, i + 1)
    ELSE IF PeekIs(T, i, "While") THEN while_statement(T, i + 1)
    ELSE IF PeekIs(T, i, "For") THEN for_statement(T, i + 1)
    ELSE IF PeekIs(T, i, "Return") THEN return_statement(T, i + 1)
    ELSE IF PeekIs(T, i, "Print") THEN print_statement(T, i + 1)
    ELSE IF PeekIs(T, i, "LeftBrace") THEN block(T, i + 1, T.toks[i].position)
    ELSE expression_statement(T, i)

statement(T, i) ==
    IF i > Len(T.toks) THEN PErr(Panic("todo"))
    ELSE IF PeekIs(T, i, "If") THEN if_statement(T, i + 1)
    ELSE IF PeekIs(T, i, "While") THEN while_statement(T, i + 1)
    ELSE IF PeekIs(T, i, "For") THEN for_statement(T, i + 1)
    ELSE IF PeekIs(T, i, "Return") THEN return_statement(T, i + 1)
    ELSE IF PeekIs(T, i, "Print") THEN print_statement(T, i + 1)
    ELSE IF PeekIs(T, i, "LeftBrace") THEN block(T, i + 1, T.toks[i].position)
    ELSE expression_statement(T, i)

if_statement(T, i) ==
    Let([condition \in {expression(T, i)} |->
        IF condition.err # None THEN condition ELSE
        Let([then_branch \in {statement(T, condition.i)} |->
            IF then_branch.err # None THEN then_branch ELSE
            Let([else_branch \in {IF PeekIs(T, then_branch.i, "Else")
                                  THEN Let([s \in {statement(T, then_branch.i + 1)} |->
                                           IF s.err # None THEN s ELSE POk(Some(s.v), s.i)])
                                  ELSE POk(None, then_branch.i)} |->
                IF else_branch.err # None THEN else_branch
                ELSE POk([k |-> "If", condition |-> condition.v,
                          then_branch |-> then_branch.v,
                          else_branch |-> else_branch.v], else_branch.i)])])])

while_statement(T, i) ==
    Let([condition \in {expression(T, i)} |->
        IF condition.err # None THEN condition ELSE
        Let([body \in {statement(T, condition.i)} |->
            IF body.err # None THEN body
            ELSE POk([k |-> "While", condition |-> condition.v, body |-> body.v], body.i)])])

\* for_statement's inner fn parse: ";" alone, or an expression and then ";".
for_clause(T, i) ==
    IF i > Len(T.toks) THEN PErr(unexpected_end_of_stream)
    ELSE IF PeekIs(T, i, "Semicolon") THEN POk(None, i + 1)
    ELSE Let([e \in {expression(T, i)} |->
             IF e.err # None THEN e ELSE
             Let([sc \in {consume(T, e.i, "Semicolon")} |->
                 IF sc.err # None THEN sc ELSE POk(Some(e.v), sc.i)])])

for_statement(T, i) ==
    Let([initializer \in {IF i > Len(T.toks) THEN PErr(unexpected_end_of_stream)
                          ELSE IF PeekIs(T, i, "Var")
                          THEN Let([v \in {var(T, i + 1)} |->
                                   IF v.err # None THEN v ELSE POk(Some(v.v), v.i)])
                          ELSE IF PeekIs(T, i, "Semicolon") THEN POk(None, i + 1)
                          ELSE Let([s \in {expression_statement(T, i)} |->
                                   IF s.err # None THEN s ELSE POk(Some(s.v), s.i)])} |->
        IF initializer.err # None THEN initializer ELSE
        Let([condition \in {for_clause(T, initializer.i)} |->
            IF condition.err # None THEN condition ELSE
            Let([increment \in {for_clause(T, condition.i)} |->
                IF increment.err # None THEN increment ELSE
                Let([body \in {statement(T, increment.i)} |->
                    IF body.err # None THEN body ELSE
                    Let([body1 \in {IF increment.v # None
                                    THEN [k |-> "Block",
                                          statements |-> <<body.v,
                                              [k |-> "Expression", expr |-> increment.v[1]]>>]
                                    ELSE body.v} |->
                    Let([body2 \in {[k |-> "While",
                                     condition |->
                                         IF condition.v # None THEN condition.v[1]
                                         ELSE ExpressionNode_new(Literal("TrueLit", ""),
                                                                 Position_new(0, 1)),
                                     body |-> body1]} |->
                    Let([body3 \in {IF initializer.v # None
                                    THEN [k |-> "Block",
                                          statements |-> <<initializer.v[1], body2>>]
                                    ELSE body2} |->
                        POk(body3, body.i)])])])])])])])

return_statement(T, i) ==
    Let([return_expression \in {IF PeekIs(T, i, "Semicolon") THEN POk(None, i + 1)
                                ELSE Let([e \in {expression(T, i)} |->
                                         IF e.err # None THEN e ELSE POk(Some(e.v), e.i)])} |->
        IF return_expression.err # None THEN return_expression ELSE
        Let([sc \in {consume(T, return_expression.i, "Semicolon")} |->
            IF sc.err # None THEN sc
            ELSE POk([k |-> "Return", expr |-> return_expression.v], sc.i)])])

print_statement(T, i) ==
    Let([e \in {expression(T, i)} |->
        IF e.err # None THEN e ELSE
        Let([sc \in {consume(T, e.i, "Semicolon")} |->
            IF sc.err # None THEN sc ELSE POk([k |-> "Print", expr |-> e.v], sc.i)])])

block_loop(T, i, statements) ==
    IF PeekIs(T, i, "RightBrace") THEN POk(statements, i)
    ELSE IF i > Len(T.toks) THEN PErr(unexpected_end_of_stream)
    ELSE Let([d \in {declaration(T, i)} |->
             IF d.err # None THEN d ELSE block_loop(T, d.i, Append(statements, d.v))])

block(T, i, opening_brace_pos) ==
    Let([l \in {block_loop(T, i, << >>)} |->
        IF l.err # None THEN l ELSE
        Let([c \in {consume_closing_delimiter(T, l.i, "RightBrace", opening_brace_pos)} |->
            IF c.err # None THEN c ELSE POk([k |-> "Block", statements |-> l.v], c.i)])])

expression_statement(T, i) ==
    Let([e \in {expression(T, i)} |->
        IF e.err # None THEN e ELSE
        Let([sc \in {consume(T, e.i, "Semicolon")} |->
            IF sc.err # None THEN sc ELSE POk([k |-> "Expression", expr |-> e.v], sc.i)])])

expression(T, i) == assignment(T, i)

\* The precedence cascade: level 1 is or, 2 and, 3 equality, 4 comparison,
\* 5 term, 6 factor; each level's operands are parsed by the level below.
OrLevel == 1
FactorLevel == 6

\* The levels with term and factor the other way round.
accepted_token_types_swapped(level) ==
    CASE level = 1 -> {"Or"}
      [] level = 2 -> {"And"}
      [] level = 3 -> {"BangEqual", "EqualEqual"}
      [] level = 4 -> {"Greater", "GreaterEqual", "Less", "LessEqual"}
      [] level = 5 -> {"Slash", "Star"}
      [] level = 6 -> {"Minus", "Plus"}

accepted_token_types(level) ==
    CASE level = 1 -> {"Or"}
      [] level = 2 -> {"And"}
      [] level = 3 -> {"BangEqual", "EqualEqual"}
      [] level = 4 -> {"Greater", "GreaterEqual", "Less", "LessEqual"}
      [] level = 5 -> {"Minus", "Plus"}
      [] level = 6 -> {"Slash", "Star"}

inner_parser(T, i, level) ==
    IF level = FactorLevel THEN unary(T, i) ELSE parse_bi_op(T, i, level + 1)

\* parse_logical_op for or/and, parse_binary_op for the other levels.
expression_creator(level, left, right, k) ==
    IF level <= 2
    THEN Let([op \in {LogicalOp_try_from(k)} |->
             IF op = None THEN None
             ELSE Some([k |-> "Logical", left |-> left, right |-> right, op |-> op[1]])])
    ELSE Let([op \in {BinaryOp_try_from(k)} |->
             IF op = None THEN None
             ELSE Some([k |-> "Binary", left |-> left, right |-> right, op |-> op[1]])])

parse_bi_op_loop(T, i, level, expression_node) ==
    IF i <= Len(T.toks) /\ T.toks[i].token_type.k \in accepted_token_types(level)
    THEN Let([op_token \in {T.toks[i]} |->
         Let([right \in {inner_parser(T, i + 1, level)} |->
         Let([made \in {expression_creator(level, expression_node,
                                           right.v, op_token.token_type.k)} |->
             IF made = None THEN PErr(illegal_token(op_token))
             ELSE IF right.err # None THEN right
             ELSE Let([start_pos \in {expression_node.position.absolute} |->
                  Let([length \in {right.v.position.absolute + right.v.position.length
                                       - start_pos} |->
                      parse_bi_op_loop(T, right.i, level,
                          ExpressionNode_new(made[1], Position_new(start_pos, length)))])])])])])
    ELSE POk(expression_node, i)

parse_bi_op(T, i, level) ==
    Let([first \in {inner_parser(T, i, level)} |->
        IF first.err # None THEN first ELSE parse_bi_op_loop(T, first.i, level, first.v)])

assignment(T, i) ==
    Let([left \in {parse_bi_op(T, i, OrLevel)} |->
        IF left.err # None THEN left
        ELSE IF PeekIs(T, left.i, "Equal")
        THEN Let([value \in {assignment(T, left.i + 1)} |->
                 IF value.err # None THEN value
                 ELSE IF left.v.expression.k = "Variable"
                 THEN Let([length \in {end_position(value.v.position)
                                           - left.v.position.absolute} |->
                          POk(ExpressionNode_new(
                                  [k |-> "Assignment", name |-> left.v.expression.name,
                                   value |-> value.v],
                                  Position_new(left.v.position.absolute, length)),
                              value.i)])
                 ELSE PErr(invalid_assignment_target(left.v.position))])
        ELSE left])

unary(T, i) ==
    IF PeekIs(T, i, "Bang") \/ PeekIs(T, i, "Minus")
    THEN Let([op \in {UnaryOp_try_from(T.toks[i].token_type.k)[1]} |->
         Let([position \in {T.toks[i].position} |->
         Let([inner \in {unary(T, i + 1)} |->
             IF inner.err # None THEN inner
             ELSE POk(ExpressionNode_new([k |-> "Unary", inner |-> inner.v, op |-> op],
                                         position), inner.i)])])])
    ELSE call(T, i)

\* The argument loop of call(): [err, v |-> [arguments, position], i].
call_args(T, i, arguments, position) ==
    Let([argument \in {expression(T, i)} |->
        IF argument.err # None THEN argument ELSE
        Let([position1 \in {union(position, argument.v.position)} |->
        Let([arguments1 \in {Append(arguments, argument.v)} |->
            IF PeekIs(T, argument.i, "RightParent")
            THEN POk([arguments |-> arguments1,
                      position |-> union(position1, T.toks[argument.i].position)],
                     argument.i + 1)
            ELSE Let([c \in {consume(T, argument.i, "Comma")} |->
                     IF c.err # None THEN c
                     ELSE call_args(T, c.i, arguments1, union(position1, c.v.position))])])])])

call_loop(T, i, expr) ==
    IF PeekIs(T, i, "LeftParent")
    THEN Let([position \in {T.toks[i].position} |->
         Let([args \in {IF PeekIs(T, i + 1, "RightParent")
                        THEN POk([arguments |-> << >>, position |-> position], i + 2)
                        ELSE call_args(T, i + 1, << >>, position)} |->
             IF args.err # None THEN args
             ELSE call_loop(T, args.i,
                      ExpressionNode_new([k |-> "Call", callee |-> expr,
                                          arguments |-> args.v.arguments],
                                         args.v.position))])])
    ELSE POk(expr, i)

call(T, i) ==
    Let([expr \in {primary(T, i)} |->
        IF expr.err # None THEN expr ELSE call_loop(T, expr.i, expr.v)])

primary(T, i) ==
    IF i > Len(T.toks) THEN PErr(unexpected_end_of_stream)
    ELSE
    Let([token \in {T.toks[i]} |->
    Let([position \in {token.position} |->
    Let([k \in {token.token_type.k} |->
        IF k = "False" THEN POk(ExpressionNode_new(Literal("FalseLit", ""), position), i + 1)
        ELSE IF k = "True"
        THEN POk(ExpressionNode_new(Literal("TrueLit", ""), position), i + 1)
        ELSE IF k = "Nil"
        THEN POk(ExpressionNode_new(Literal("NilLit", ""), position), i + 1)
        ELSE IF k = "Number"
        THEN POk(ExpressionNode_new(Literal("NumberLit", token.token_type.value),
                                    position), i + 1)
        ELSE IF k = "StringToken"
        THEN POk(ExpressionNode_new(Literal("StringLit", token.token_type.value),
                                    position), i + 1)
        ELSE IF k = "LeftParent"
        THEN Let([inner \in {expression(T, i + 1)} |->
                 IF inner.err # None THEN inner ELSE
                 Let([c \in {consume_closing_delimiter(T, inner.i, "RightParent", position)} |->
                     IF c.err # None THEN c
                     ELSE POk(ExpressionNode_new(
                                  [k |-> "Grouping", inner |-> inner.v],
                                  Position_new(position.absolute,
                                               end_position(c.v.position)
                                                   - position.absolute)),
                              c.i)])])
        ELSE IF k = "Identifier"
        THEN POk(ExpressionNode_new([k |-> "Variable", name |-> token.token_type.value],
                                    position), i + 1)
        ELSE PErr(illegal_token(token))])])])

\* TokenIter::new: tokens.last().unwrap() panics on an empty token slice.
TokenIter_new(tokens) ==
    [toks |-> tokens,
     size |-> tokens[Len(tokens)].position.absolute + tokens[Len(tokens)].position.length]

RECURSIVE parse_loop(_, _, _)
parse_loop(T, i, statements) ==
    IF i > Len(T.toks) THEN POk(statements, i)
    ELSE Let([d \in {declaration(T, i)} |->
             IF d.err # None THEN d ELSE parse_loop(T, d.i, Append(statements, d.v))])

\* parse(tokens): [err, v |-> the statements, i].
parse(tokens) ==
    IF tokens = << >> THEN PErr(Panic("unwrap on None"))
    ELSE parse_loop(TokenIter_new(tokens), 1, << >>)

(***************************************************************************)
(* Values (value.rs, callable.rs)                                          *)
(***************************************************************************)
Nil == [t |-> "Nil"]
Boolean(b) == [t |-> "Boolean", b |-> b]
Number(n) == [t |-> "Number", n |-> n]
Str(s) == [t |-> "Str", s |-> s]
Function(container) == [t |-> "Function", f |-> container]

\* closure is the identity of a shared environment: its index in the heap.
FunctionContainer_new(name, parameters, body, closure) ==
    [id |-> name, parameters |-> parameters, body |-> body, closure |-> closure]

\* PartialEq for FunctionContainer.
FunctionContainer_eq(f, g) == f.id = g.id

\* The derived PartialEq of Value: the same variant and equal payloads.
Value_eq(a, b) ==
    /\ a.t = b.t
    /\ CASE a.t = "Nil" -> TRUE
         [] a.t = "Boolean" -> a.b = b.b
         [] a.t = "Number" -> a.n = b.n
         [] a.t = "Str" -> a.s = b.s
         [] a.t = "Function" -> FunctionContainer_eq(a.f, b.f)

ValueNode_new(value, position) == [value |-> value, position |-> position]

\* The derived PartialEq of ValueNode compares both fields of the struct.
ValueNode_eq(a, b) == Value_eq(a.value, b.value) /\ a.position = b.position

\* Display and Debug for Value.
Display(v) ==
    CASE v.t = "Nil" -> "Nil"
      [] v.t = "Boolean" -> (IF v.b THEN "true" ELSE "false")
      [] v.t = "Number" -> ToString(v.n)
      [] v.t = "Str" -> v.s
      [] v.t = "Function" -> "fun " \o v.f.id

Debug(v) ==
    CASE v.t = "Nil" -> "Nil"
      [] v.t = "Boolean" -> (IF v.b THEN "true:Boolean" ELSE "false:Boolean")
      [] v.t = "Number" -> ToString(v.n) \o ":Number"
      [] v.t = "Str" -> v.s \o ":String"
      [] v.t = "Function" -> "fun " \o v.f.id

(***************************************************************************)
(* Runtime errors (error.rs)                                               *)
(***************************************************************************)
type_error(found, expected) ==
    [kind |-> "TypeError", found |-> Debug(found.value), expected |-> expected,
     position |-> found.position]

uninitialized_variable(variable, position) ==
    [kind |-> "UninitializedVariable", variable |-> variable, position |-> position]

unknown_identifier(variable, position) ==
    [kind |-> "UnknownIdentifier", variable |-> variable, position |-> position]

(***************************************************************************)
(* Environment (environment.rs).  The shared environments                  *)
(* (Rc<RefCell<Environment>>) live in a heap, a sequence indexed by their  *)
(* identity; parent is None or Some(identity).  variables maps the names   *)
(* declared in the scope to Option<Value>.                                 *)
(***************************************************************************)
Environment_empty == [parent |-> None, variables |-> << >>]

wrap(parent) == [parent |-> Some(parent), variables |-> << >>]

contains_key(env, key) == key \in DOMAIN env.variables

\* HashMap::insert: the entry for key is installed or replaced.
register(env, key, value) ==
    [env EXCEPT !.variables =
        [n \in (DOMAIN env.variables) \cup {key} |->
            IF n = key THEN value ELSE env.variables[n]]]

\* assign that never looks past the scope it is called on: an undeclared name
\* is declared there.
assign_in_scope(heap, e, key, value) ==
    [heap |-> [heap EXCEPT ![e] = register(heap[e], key, Some(value))], b |-> TRUE]

\* assign on one table of names for the whole heap: every scope that declares
\* the name is written, on the chain or not.
assign_everywhere(heap, e, key, value) ==
    [heap |-> [s \in 1..Len(heap) |->
                  IF contains_key(heap[s], key)
                  THEN register(heap[s], key, Some(value)) ELSE heap[s]],
     b |-> \E s \in 1..Len(heap) : contains_key(heap[s], key)]

RECURSIVE assign_through(_, _, _, _)
\* assign that goes on up the chain after it has written: every scope of the
\* chain that declares the name is written.
assign_through(heap, e, key, value) ==
    IF contains_key(heap[e], key)
    THEN [heap |-> IF heap[e].parent = None
                   THEN [heap EXCEPT ![e] = register(heap[e], key, Some(value))]
                   ELSE assign_through(
                            [heap EXCEPT ![e] = register(heap[e], key, Some(value))],
                            heap[e].parent[1], key, value).heap,
          b |-> TRUE]
    ELSE IF heap[e].parent # None THEN assign_through(heap, heap[e].parent[1], key, value)
    ELSE [heap |-> heap, b |-> FALSE]

RECURSIVE assign(_, _, _, _)
\* assign on the environment e of heap: [heap |-> the heap after, b |-> result].
assign(heap, e, key, value) ==
    IF contains_key(heap[e], key)
    THEN [heap |-> [heap EXCEPT ![e] = register(heap[e], key, Some(value))], b |-> TRUE]
    ELSE IF heap[e].parent # None THEN assign(heap, heap[e].parent[1], key, value)
    ELSE [heap |-> heap, b |-> FALSE]

RECURSIVE get_initialised(_, _, _)
\* A get that takes a declaration without a value for no declaration and
\* looks further up the chain.
get_initialised(heap, e, key) ==
    IF contains_key(heap[e], key) /\ heap[e].variables[key] # None
    THEN Some(heap[e].variables[key])
    ELSE IF heap[e].parent # None THEN get_initialised(heap, heap[e].parent[1], key)
    ELSE None

RECURSIVE get(_, _, _)
\* get: None, Some(None) or Some(Some(value)).
get(heap, e, key) ==
    IF contains_key(heap[e], key) THEN Some(heap[e].variables[key])
    ELSE IF heap[e].parent # None THEN get(heap, heap[e].parent[1], key)
    ELSE None

(***************************************************************************)
(* Value operations (value.rs).  Each returns [ok, v]: ok and the result,  *)
(* or ~ok and the RuntimeError.                                            *)
(***************************************************************************)
VOk(v) == [ok |-> TRUE, v |-> v]
VErr(e) == [ok |-> FALSE, v |-> e]

from_literal(lit, position) ==
    ValueNode_new(CASE lit.k = "NumberLit" -> Number(lit.value)
                    [] lit.k = "StringLit" -> Str(lit.value)
                    [] lit.k = "TrueLit" -> Boolean(TRUE)
                    [] lit.k = "FalseLit" -> Boolean(FALSE)
                    [] lit.k = "NilLit" -> Nil,
                  position)

as_number(self) ==
    IF self.value.t = "Number" THEN VOk(self.value.n) ELSE VErr(type_error(self, "Number"))

\* An as_boolean that takes every value but false and nil for true.
as_boolean_lenient(self) ==
    IF self.value.t = "Boolean" THEN VOk(self.value.b)
    ELSE IF self.value.t = "Nil" THEN VOk(FALSE)
    ELSE VOk(TRUE)

as_boolean(self) ==
    IF self.value.t = "Boolean" THEN VOk(self.value.b)
    ELSE IF self.value.t = "Nil" THEN VOk(FALSE)
    ELSE VErr(type_error(self, "Boolean"))

as_str(self) ==
    IF self.value.t = "Str" THEN VOk(self.value.s) ELSE VErr(type_error(self, "String"))

negative(self) ==
    Let([n \in {as_number(self)} |->  IF n.ok THEN VOk(Number(0 - n.v)) ELSE n])

not(self) ==
    Let([b \in {as_boolean(self)} |->  IF b.ok THEN VOk(Boolean(~b.v)) ELSE b])

\* An add that knows numbers only.
add_numbers(self, other) ==
    IF self.value.t = "Number"
    THEN Let([r \in {as_number(other)} |->  IF r.ok THEN VOk(Number(self.value.n + r.v)) ELSE r])
    ELSE VErr(type_error(self, "Number"))

add(self, other) ==
    IF self.value.t = "Number"
    THEN Let([r \in {as_number(other)} |->  IF r.ok THEN VOk(Number(self.value.n + r.v)) ELSE r])
    ELSE IF self.value.t = "Str"
    THEN Let([r \in {as_str(other)} |->  IF r.ok THEN VOk(Str(self.value.s \o r.v)) ELSE r])
    ELSE VErr(type_error(self, "Number"))

subtract(self, other) ==
    Let([l \in {as_number(self)} |->
    Let([r \in {as_number(other)} |->
        IF ~l.ok THEN l ELSE IF ~r.ok THEN r ELSE VOk(Number(l.v - r.v))])])

RECURSIVE repeat(_, _)
repeat(str, n) == IF n <= 0 THEN "" ELSE str \o repeat(str, n - 1)

multiply(self, other) ==
    IF self.value.t = "Number"
    THEN Let([r \in {as_number(other)} |->  IF r.ok THEN VOk(Number(self.value.n * r.v)) ELSE r])
    ELSE IF self.value.t = "Str"
    THEN Let([r \in {as_number(other)} |->
             IF r.ok THEN VOk(Str(repeat(self.value.s, r.v))) ELSE r])
    ELSE VErr(type_error(self, "Number or String"))

\* f64 division: the integer quotient when it is exact, otherwise the quotient
\* kept as numerator and denominator (a fraction, or an infinity or NaN for 0).
divide(self, other) ==
    Let([l \in {as_number(self)} |->
    Let([r \in {as_number(other)} |->
        IF ~l.ok THEN l ELSE IF ~r.ok THEN r
        ELSE IF r.v # 0 /\ l.v % r.v = 0 THEN VOk(Number(l.v \div r.v))
        ELSE VOk(Number([num |-> l.v, den |-> r.v]))])])

equals(self, other) == VOk(Boolean(ValueNode_eq(self, other)))

not_equals(self, other) == VOk(Boolean(~ValueNode_eq(self, other)))

\* The order of the characters of the texts compared (their code points).
CharOrder == Chars(" !\"(),-.0123456789;ABCDEFGHIJKLMNOPQRSTUVWXYZabcdefghijklmnopqrstuvwxyz")

CharRank(c) == CHOOSE i \in 1..Len(CharOrder) : CharOrder[i] = c

RECURSIVE str_cmp(_, _)
\* str::partial_cmp on two character sequences: "Less", "Equal" or "Greater".
str_cmp(l, r) ==
    IF l = << >> /\ r = << >> THEN "Equal"
    ELSE IF l = << >> THEN "Less"
    ELSE IF r = << >> THEN "Greater"
    ELSE IF CharRank(Head(l)) < CharRank(Head(r)) THEN "Less"
    ELSE IF CharRank(Head(l)) > CharRank(Head(r)) THEN "Greater"
    ELSE str_cmp(Tail(l), Tail(r))

int_cmp(l, r) == IF l < r THEN "Less" ELSE IF l > r THEN "Greater" ELSE "Equal"

\* A compare that orders numbers only.
compare_numbers(self, other) ==
    IF self.value.t = "Number" /\ other.value.t = "Number"
    THEN Some(int_cmp(self.value.n, other.value.n))
    ELSE None

\* compare: Option<Ordering>.
compare(self, other) ==
    IF self.value.t = "Number" /\ other.value.t = "Number"
    THEN Some(int_cmp(self.value.n, other.value.n))
    ELSE IF self.value.t = "Boolean" /\ other.value.t = "Boolean"
    THEN Some(int_cmp(IF self.value.b THEN 1 ELSE 0, IF other.value.b THEN 1 ELSE 0))
    ELSE IF self.value.t = "Str" /\ other.value.t = "Str"
    THEN Some(str_cmp(Chars(self.value.s), Chars(other.value.s)))
    ELSE None

less_than(self, other) ==
    Let([c \in {compare(self, other)} |->  VOk(Boolean(c # None /\ c[1] = "Less"))])

less_than_or_equals(self, other) ==
    Let([c \in {compare(self, other)} |->  VOk(Boolean(c # None /\ c[1] \in {"Less", "Equal"}))])

greater_than(self, other) ==
    Let([c \in {compare(self, other)} |->  VOk(Boolean(c # None /\ c[1] = "Greater"))])

greater_than_or_equals(self, other) ==
    Let([c \in {compare(self, other)} |->  VOk(Boolean(c # None /\ c[1] \in {"Greater", "Equal"}))])

binary_op(op, left_value, right_value) ==
    CASE op = "Equals" -> equals(left_value, right_value)
      [] op = "NotEquals" -> not_equals(left_value, right_value)
      [] op = "LessThan" -> less_than(left_value, right_value)
      [] op = "LessThanOrEquals" -> less_than_or_equals(left_value, right_value)
      [] op = "GreaterThan" -> greater_than(left_value, right_value)
      [] op = "GreaterThanOrEquals" -> greater_than_or_equals(left_value, right_value)
      [] op = "Add" -> add(left_value, right_value)
      [] op = "Subtract" -> subtract(left_value, right_value)
      [] op = "Multiply" -> multiply(left_value, right_value)
      [] op = "Divide" -> divide(left_value, right_value)

(***************************************************************************)
(* Evaluator (evaluation.rs, callable.rs, value.rs).  The machine state S  *)
(* threaded through an evaluation is the heap of environments, the lines   *)
(* printed to stdout and the fuel left.  A result is [st, v, S]:           *)
(*   st = "ok"   Ok(v): a ValueNode for an expression, a Value for a       *)
(*               statement;                                                *)
(*   st = "err"  Err(Error(v)), v a RuntimeError;                          *)
(*   st = "ret"  Err(Return(v)), the signal of a return statement;         *)
(*   st = "fuel" the evaluation was cut off after MaxFuel calls and loop   *)
(*               iterations (the program itself sets no limit).            *)
(***************************************************************************)
MaxFuel == 8

ER(st, v, S) == [st |-> st, v |-> v, S |-> S]

\* Rc::new(RefCell::new(env)): the environment gets the next identity.
Alloc(S, env) == [S EXCEPT !.envs = Append(S.envs, env)]

RECURSIVE zip_register(_, _, _)
\* for (key, value) in parameters.iter().zip(arguments) { env.register(..) }
zip_register(env, parameters, arguments) ==
    IF parameters = << >> \/ arguments = << >> THEN env
    ELSE zip_register(register(env, Head(parameters), Some(Head(arguments).value)),
                      Tail(parameters), Tail(arguments))

RECURSIVE evaluate_statement(_, _, _), evaluate_block(_, _, _),
          evaluate_while(_, _, _, _), evaluate_expression(_, _, _),
          evaluate_arguments(_, _, _, _), evaluate_logical(_, _, _, _),
          FunctionContainer_call(_, _, _), ValueNode_call(_, _, _),
          evaluate_assignment(_, _, _)

\* The statements of a Block evaluated in the environment the block was
\* entered from.
evaluate_block_in_parent(statements, block_env, S) ==
    IF statements = << >> THEN ER("ok", Nil, S)
    ELSE Let([r \in {evaluate_statement(Head(statements), S.envs[block_env].parent[1], S)} |->
             IF r.st # "ok" THEN r ELSE evaluate_block(Tail(statements), block_env, r.S)])

\* The statements of a Block, one after the other, in block_env.
evaluate_block(statements, block_env, S) ==
    IF statements = << >> THEN ER("ok", Nil, S)
    ELSE Let([r \in {evaluate_statement(Head(statements), block_env, S)} |->
             IF r.st # "ok" THEN r ELSE evaluate_block(Tail(statements), block_env, r.S)])

evaluate_while(condition, body, env, S) ==
    Let([c \in {evaluate_expression(condition, env, S)} |->
        IF c.st # "ok" THEN c ELSE
        Let([b \in {as_boolean(c.v)} |->
            IF ~b.ok THEN ER("err", b.v, c.S)
            ELSE IF ~b.v THEN ER("ok", Nil, c.S)
            ELSE IF c.S.fuel = 0 THEN ER("fuel", Nil, c.S)
            ELSE Let([r \in {evaluate_statement(body, env,
                                                [c.S EXCEPT !.fuel = c.S.fuel - 1])} |->
                     IF r.st # "ok" THEN r ELSE evaluate_while(condition, body, env, r.S)])])])

\* Statement::Return: the value of the expression, or Nil, as a Return signal.
evaluate_return(expr, env, S) ==
    IF expr = None THEN ER("ret", Nil, S)
    ELSE Let([r \in {evaluate_expression(expr[1], env, S)} |->
             IF r.st # "ok" THEN r ELSE ER("ret", r.v.value, r.S)])

\* Statement::Function: the function object's closure is the current environment.
evaluate_function(stmt, env, S) ==
    Let([container \in {FunctionContainer_new(stmt.name, stmt.parameters, stmt.body, env)} |->
        ER("ok", Nil,
           [S EXCEPT !.envs[env] = register(S.envs[env], stmt.name,
                                            Some(Function(container)))])])

evaluate_statement(stmt, env, S) ==
    CASE stmt.k = "Print" ->
            Let([r \in {evaluate_expression(stmt.expr, env, S)} |->
                IF r.st # "ok" THEN r
                ELSE ER("ok", r.v.value,
                        [r.S EXCEPT !.out = Append(r.S.out, Display(r.v.value))])])
      [] stmt.k = "Expression" ->
            Let([r \in {evaluate_expression(stmt.expr, env, S)} |->
                IF r.st # "ok" THEN r ELSE ER("ok", r.v.value, r.S)])
      [] stmt.k = "Var" ->
            IF stmt.initializer = None
            THEN ER("ok", Nil, [S EXCEPT !.envs[env] = register(S.envs[env], stmt.name, None)])
            ELSE Let([r \in {evaluate_expression(stmt.initializer[1], env, S)} |->
                     IF r.st # "ok" THEN r
                     ELSE ER("ok", Nil,
                             [r.S EXCEPT !.envs[env] =
                                 register(r.S.envs[env], stmt.name, Some(r.v.value))])])
      [] stmt.k = "Block" ->
            evaluate_block(stmt.statements, Len(S.envs) + 1, Alloc(S, wrap(env)))
      [] stmt.k = "If" ->
            Let([c \in {evaluate_expression(stmt.condition, env, S)} |->
                IF c.st # "ok" THEN c ELSE
                Let([b \in {as_boolean(c.v)} |->
                    IF ~b.ok THEN ER("err", b.v, c.S)
                    ELSE IF b.v THEN evaluate_statement(stmt.then_branch, env, c.S)
                    ELSE IF stmt.else_branch # None
                    THEN evaluate_statement(stmt.else_branch[1], env, c.S)
                    ELSE ER("ok", Nil, c.S)])])
      [] stmt.k = "While" ->
            evaluate_while(stmt.condition, stmt.body, env, S)
      [] stmt.k = "Function" -> evaluate_function(stmt, env, S)
      [] stmt.k = "Return" -> evaluate_return(stmt.expr, env, S)

\* Callable::call for FunctionContainer: the parameters are bound in a new
\* child of the closure and the body is evaluated there.
\* A call whose environment wraps the environment created last (the caller's
\* innermost scope) instead of the closure: dynamic scoping.
FunctionContainer_call_dynamic(container, arguments, S) ==
    Let([env \in {zip_register(wrap(Len(S.envs)), container.parameters, arguments)} |->
        evaluate_statement(container.body, Len(S.envs) + 1, Alloc(S, env))])

\* FunctionContainer::call (callable.rs).
FunctionContainer_call(container, arguments, S) ==
    Let([env \in {zip_register(wrap(container.closure), container.parameters, arguments)} |->
        evaluate_statement(container.body, Len(S.envs) + 1, Alloc(S, env))])

\* A call that hands the body's Return signal on to its caller.
ValueNode_call_passing(self, arguments, S) ==
    IF self.value.t = "Function"
    THEN IF S.fuel = 0 THEN ER("fuel", Nil, S)
         ELSE FunctionContainer_call(self.value.f, arguments,
                                     [S EXCEPT !.fuel = S.fuel - 1])
    ELSE ER("err", type_error(self, "Callable"), S)

\* ValueNode::call: a Return signal of the body becomes the call's value.
ValueNode_call(self, arguments, S) ==
    IF self.value.t = "Function"
    THEN IF S.fuel = 0 THEN ER("fuel", Nil, S)
         ELSE Let([r \in {FunctionContainer_call(self.value.f, arguments,
                                                 [S EXCEPT !.fuel = S.fuel - 1])} |->
                  IF r.st = "ret" THEN ER("ok", r.v, r.S) ELSE r])
    ELSE ER("err", type_error(self, "Callable"), S)

\* arguments.iter().map(evaluate_expression).collect::<Result<Vec<_>, _>>()
evaluate_arguments(arguments, env, S, values) ==
    IF arguments = << >> THEN ER("ok", values, S)
    ELSE Let([r \in {evaluate_expression(Head(arguments), env, S)} |->
             IF r.st # "ok" THEN r
             ELSE evaluate_arguments(Tail(arguments), env, r.S, Append(values, r.v))])

\* A Logical arm that evaluates the right operand before it looks at the left.
evaluate_logical_eager(expr, left_value, env, S) ==
    Let([b \in {as_boolean(left_value)} |->
    Let([right_value \in {evaluate_expression(expr.expression.right, env, S)} |->
        IF ~b.ok THEN ER("err", b.v, S)
        ELSE IF right_value.st # "ok" THEN right_value
        ELSE IF expr.expression.op = "And" /\ ~b.v
        THEN ER("ok", ValueNode_new(Boolean(FALSE), expr.position), right_value.S)
        ELSE IF expr.expression.op = "Or" /\ b.v
        THEN ER("ok", ValueNode_new(Boolean(TRUE), expr.position), right_value.S)
        ELSE ER("ok", ValueNode_new(right_value.v.value, expr.position), right_value.S)])])

\* The Logical arm after the left operand: the short circuit, or the right
\* operand's value.
evaluate_logical(expr, left_value, env, S) ==
    Let([b \in {as_boolean(left_value)} |->
        IF ~b.ok THEN ER("err", b.v, S)
        ELSE IF expr.expression.op = "And" /\ ~b.v
        THEN ER("ok", ValueNode_new(Boolean(FALSE), expr.position), S)
        ELSE IF expr.expression.op = "Or" /\ b.v
        THEN ER("ok", ValueNode_new(Boolean(TRUE), expr.position), S)
        ELSE Let([right_value \in {evaluate_expression(expr.expression.right, env, S)} |->
                 IF right_value.st # "ok" THEN right_value
                 ELSE ER("ok", ValueNode_new(right_value.v.value, expr.position),
                         right_value.S)])])

\* An assignment that evaluates to the value it has assigned.
evaluate_assignment_yielding(expr, env, S) ==
    Let([value \in {evaluate_expression(expr.expression.value, env, S)} |->
        IF value.st # "ok" THEN value ELSE
        Let([a \in {assign(value.S.envs, env, expr.expression.name, value.v.value)} |->
            IF a.b
            THEN ER("ok", ValueNode_new(value.v.value, expr.position),
                    [value.S EXCEPT !.envs = a.heap])
            ELSE ER("err", unknown_identifier(expr.expression.name, expr.position),
                    value.S)])])

\* The Assignment arm of evaluate_expression.
evaluate_assignment(expr, env, S) ==
    Let([value \in {evaluate_expression(expr.expression.value, env, S)} |->
        IF value.st # "ok" THEN value ELSE
        Let([a \in {assign(value.S.envs, env, expr.expression.name, value.v.value)} |->
            IF a.b
            THEN ER("ok", ValueNode_new(Nil, expr.position),
                    [value.S EXCEPT !.envs = a.heap])
            ELSE ER("err", unknown_identifier(expr.expression.name, expr.position),
                    value.S)])])

evaluate_expression(expr, env, S) ==
    Let([e \in {expr.expression} |->
        CASE e.k = "Literal" -> ER("ok", from_literal(e.lit, expr.position), S)
          [] e.k = "Grouping" -> evaluate_expression(e.inner, env, S)
          [] e.k = "Unary" ->
                Let([i \in {evaluate_expression(e.inner, env, S)} |->
                    IF i.st # "ok" THEN i ELSE
                    Let([value \in {IF e.op = "Negative" THEN negative(i.v) ELSE not(i.v)} |->
                        IF ~value.ok THEN ER("err", value.v, i.S)
                        ELSE ER("ok", ValueNode_new(value.v, expr.position), i.S)])])
          [] e.k = "Binary" ->
                Let([l \in {evaluate_expression(e.left, env, S)} |->
                    IF l.st # "ok" THEN l ELSE
                    Let([r \in {evaluate_expression(e.right, env, l.S)} |->
                        IF r.st # "ok" THEN r ELSE
                        Let([value \in {binary_op(e.op, l.v, r.v)} |->
                            IF ~value.ok THEN ER("err", value.v, r.S)
                            ELSE ER("ok", ValueNode_new(value.v, expr.position), r.S)])])])
          [] e.k = "Logical" ->
                Let([l \in {evaluate_expression(e.left, env, S)} |->
                    IF l.st # "ok" THEN l ELSE evaluate_logical(expr, l.v, env, l.S)])
          [] e.k = "Variable" ->
                Let([found \in {get(S.envs, env, e.name)} |->
                    IF found = None
                    THEN ER("err", unknown_identifier(e.name, expr.position), S)
                    ELSE IF found[1] = None
                    THEN ER("err", uninitialized_variable(e.name, expr.position), S)
                    ELSE ER("ok", ValueNode_new(found[1][1], expr.position), S)])
          [] e.k = "Assignment" -> evaluate_assignment(expr, env, S)
          [] e.k = "Call" ->
                Let([callee_expr \in {evaluate_expression(e.callee, env, S)} |->
                    IF callee_expr.st # "ok" THEN callee_expr ELSE
                    Let([argument_values \in {evaluate_arguments(e.arguments, env, callee_expr.S, << >>)} |->
                        IF argument_values.st # "ok" THEN argument_values ELSE
                        Let([value \in {ValueNode_call(callee_expr.v, argument_values.v,
                                                       argument_values.S)} |->
                            IF value.st # "ok" THEN value
                            ELSE ER("ok", ValueNode_new(value.v, expr.position), value.S)])])])])

RECURSIVE evaluate_loop(_, _, _, _)
evaluate_loop(statements, env, S, result) ==
    IF statements = << >> THEN ER("ok", result, S)
    ELSE Let([r \in {evaluate_statement(Head(statements), env, S)} |->
             IF r.st # "ok" THEN r ELSE evaluate_loop(Tail(statements), env, r.S, r.v)])

\* evaluate(statements, env): the value of the last statement, or the first Err.
evaluate(statements, env, S) == evaluate_loop(statements, env, S, Nil)

(***************************************************************************)
(* The driver (main.rs): run(source, env) scans, parses and evaluates one  *)
(* line against the REPL's global environment.                             *)
(***************************************************************************)
Outcome(kind, v) == [kind |-> kind, v |-> v]

\* The first half of run(): the scanner and the parser, a function of the source
\* alone.  A panic aborts the process.
front_end(source) ==
    Let([scanned \in {scan(source)} |->
        IF scanned.panic THEN [res |-> Outcome("panic", "scan"), program |-> << >>]
        ELSE Let([parsed \in {parse(scanned.tokens)} |->
                 IF parsed.err = None
                 THEN [res |-> Outcome("parsed", Nil), program |-> parsed.v]
                 ELSE IF parsed.err[1].kind = "panic"
                 THEN [res |-> Outcome("panic", "parse"), program |-> << >>]
                 ELSE [res |-> Outcome("parse_error", parsed.err[1]), program |-> << >>]])])

\* The second half of run(): evaluate on the given environment, which is
\* heap[1].  [res, envs, out].
back_end(compiled, heap) ==
    IF compiled.res.kind # "parsed"
    THEN [res |-> compiled.res, envs |-> heap, out |-> << >>]
    ELSE Let([r \in {evaluate(compiled.program, 1,
                              [envs |-> heap, out |-> << >>, fuel |-> MaxFuel])} |->
             [res |-> CASE r.st = "ok" -> Outcome("value", r.v)
                        [] r.st = "err" -> Outcome("runtime_error", r.v)
                        [] r.st = "ret" -> Outcome("return", r.v)
                        [] r.st = "fuel" -> Outcome("fuel", Nil),
              envs |-> r.S.envs, out |-> r.S.out]])

run(source, heap) == back_end(front_end(source), heap)

(***************************************************************************)
(* The REPL (main.rs run_repl): one global environment, one run() per line *)
(* the user submits.  A session is the set of lines the user types from.   *)
(***************************************************************************)
\* The REPL takes lines while its heap holds at most MaxEnvs environments.
MaxEnvs == 5

NoOutcome == Outcome("none", Nil)

\* The closure counter of the design, and ways of calling it.
CounterSetup ==
    "fun mk() { var x = 0; fun inc() { x = x + 1; return x; } return inc; } var c = mk();"

CounterCalls ==
    [p |-> "print c();",
     pp |-> "print c(); print c();",
     ppp |-> "print c(); print c(); print c();",
     s |-> "{ var x = 10; print c(); }",
     psp |-> "print c(); { var x = 10; print c(); } print c();"]

NCalls == [p |-> 1, pp |-> 2, ppp |-> 3, s |-> 1, psp |-> 3]

CounterLines ==
    {CounterSetup} \cup {CounterCalls[b] : b \in DOMAIN CounterCalls}
        \cup {CounterSetup \o " " \o CounterCalls[b] : b \in DOMAIN CounterCalls}

\* Functions that read y, called from scopes that declare y.
ScopeDefs ==
    "fun f() { return y; } fun g() { var y = 1; return f(); } fun k(y) { return f(); }"

\* Calls of f from a caller that has its own y.
CallerScoped == {"g();", "k(5);", "{ var y = 2; print f(); }"}

\* A closure made in a scope with y = 3 and called from a scope with y = 4.
BlockClosure == "{ var y = 3; fun h() { return y; } { var y = 4; print h(); } }"

ScopingLines ==
    {ScopeDefs, "var y = 7;", "var y = 8;", "f();", BlockClosure} \cup CallerScoped
        \cup {ScopeDefs \o " " \o l : l \in CallerScoped}

\* Operands that print their name when evaluated: t is true, f is false,
\* n is nil, z is the number 0.
LogicDefs ==
    "fun t() { print \"t\"; return true; } fun f() { print \"f\"; return false; } "
        \o "fun n() { print \"n\"; return nil; } fun z() { print \"z\"; return 0; }"

LogicOperands == {"t", "f", "n", "z"}

LogicLine(a, op, b) == LogicDefs \o " " \o a \o "() " \o op \o " " \o b \o "();"

\* Left operands without a call: (y = x) copies x to y and is Nil, 0 is no
\* condition.  The right operand (x = 1) leaves its mark in x.
AssignOperands == {"true", "false", "nil", "(y = x)", "0"}

AssignLine(a, op) == "var x = 0; var y = 5; " \o a \o " " \o op \o " (x = 1);"

LogicLines ==
    {LogicLine(a, op, b) : a \in LogicOperands, op \in {"and", "or"},
                           b \in LogicOperands}
        \cup {AssignLine(a, op) : a \in AssignOperands, op \in {"and", "or"}}
        \cup {LogicDefs, "t() and f();", "f() or t();", "var t = nil;"}

\* Functions that return from nested statements, and one that never returns.
\* r5 returns no value: return_statement takes a second ";" after "return;".
ReturnDefs ==
    "fun r1() { print \"a\"; return 1; print \"b\"; } "
        \o "fun r2() { if true { return 2; } print \"b\"; return 3; } "
        \o "fun r3() { var i = 0; while i < 5 { i = i + 1; if 2 < i { { return i; } } } "
        \o "print \"b\"; return 0; } "
        \o "fun r4() { print \"a\"; } "
        \o "fun r5() { print \"a\"; return;; print \"b\"; } "
        \o "fun r6() { var v = r1(); print \"c\"; return v + 10; }"

ReturnCalls == {"r1", "r2", "r3", "r4", "r5", "r6"}

ReturnLine(r) == ReturnDefs \o " " \o r \o "();"

\* add has two parameters; its body prints.
CallDefs == "fun add(a, b) { print \"body\"; }"

ArityMismatches == {"add();", "add(1);", "add(1, 2, 3);"}

NonFunctionCalls == {"1();", "\"s\"();", "nil();", "true();", "add(1, 2)();"}

CallLine(c) == CallDefs \o " " \o c

FunctionLines ==
    {ReturnLine(r) : r \in ReturnCalls}
        \cup {CallLine(c) : c \in ArityMismatches \cup NonFunctionCalls \cup {"add(1, 2);"}}
        \cup {"return 1;", "var add = 1;"} \cup ArityMismatches

\* Declarations, reads and assignments of x, at the top level and in blocks.
VariableReads == {"x;", "{ { x; } }"}

VariableLines ==
    {"var x;", "var x = 1;", "var x = \"s\";", "x = 2;", "x = nil;", "a = 1;", "a;",
     "{ var x; x; }", "{ var x = 3; { x = 4; } print x; }",
     "{ var a = 5; } a;"} \cup VariableReads

\* Loops: the for statement as the grammar writes it and as for_statement
\* reads it, and while.
ForParenthesised == "for (var i = 0; i < 3; i = i + 1) print i;"

ForBare == "for var i = 0; i < 3; i = i + 1; print i;"

LoopLines ==
    {ForParenthesised, ForBare, "var n = 0;", "print n;",
     "while n < 3 { print n; n = n + 1; }", "for ; n < 2; n = n + 1; print n;",
     "{ var n = 1; print n; }", "var n = 2;", "n = 1;",
     "for (;;) print 1;", "for var j = 0; j < 2; ; { print j; j = j + 1; }"}

\* Operands of == and !=, as literals.
EqOperands == {"1", "2", "12", "nil", "true", "false", "\"a\"", "\"b\"", "\"\""}

EqLine(a, op, b) == a \o " " \o op \o " " \o b \o ";"

EqualityLines == {EqLine(a, op, b) : a \in EqOperands, op \in {"==", "!="},
                                     b \in EqOperands}

\* Conditions: every line starts from c = true, x = 0 and a function g.
CondDefs == "var c = true; var x = 0; fun g() { } "

\* What an operand is as a condition: "t" truthy, "f" falsy, "e" no condition.
CondKind ==
    [a \in {"true", "c", "(1 < 2)"} |-> "t"]
        @@ [a \in {"false", "nil", "(2 < 1)", "(c = false)", "(1 < nil)"} |-> "f"]
        @@ [a \in {"0", "1", "2", "12", "-1", "\"\"", "\"a\"", "\"b\"", "\"true\"",
                   "\"nil\"", "g", "(1 + 1)", "(\"a\" + \"b\")"} |-> "e"]

CondOperands == DOMAIN CondKind

IfLine(a) == CondDefs \o "if " \o a \o " print \"then\"; else print \"else\";"

\* The body ends the loop and leaves its mark in x.
WhileLine(a) == CondDefs \o "c = " \o a \o "; while c c = x = nil;"

NotLine(a) == CondDefs \o "!" \o a \o ";"

AndLine(a, b) == CondDefs \o a \o " and " \o b \o ";"

OrLine(a, b) == CondDefs \o a \o " or " \o b \o ";"

ConditionLines ==
    {IfLine(a) : a \in CondOperands} \cup {WhileLine(a) : a \in CondOperands}
        \cup {NotLine(a) : a \in CondOperands}
        \cup {AndLine(a, b) : a \in {"true", "false", "nil"}, b \in CondOperands}
        \cup {OrLine(a, b) : a \in {"true", "false", "nil"}, b \in CondOperands}
        \cup {AndLine(a, "true") : a \in CondOperands}
        \cup {OrLine(a, "false") : a \in CondOperands}

\* Operands of + and of the comparisons: t is the type of the operand and
\* rank its place among the operands of its type (a number's value, false
\* before true, the strings in lexicographic order).
OpKind ==
    ("1" :> [t |-> "Number", rank |-> 1]) @@ ("2" :> [t |-> "Number", rank |-> 2])
        @@ ("12" :> [t |-> "Number", rank |-> 12])
        @@ ("\"\"" :> [t |-> "Str", rank |-> 0]) @@ ("\"a\"" :> [t |-> "Str", rank |-> 1])
        @@ ("\"ab\"" :> [t |-> "Str", rank |-> 2]) @@ ("\"b\"" :> [t |-> "Str", rank |-> 3])
        @@ ("false" :> [t |-> "Boolean", rank |-> 0])
        @@ ("true" :> [t |-> "Boolean", rank |-> 1])
        @@ ("nil" :> [t |-> "Nil", rank |-> 0]) @@ ("g" :> [t |-> "Function", rank |-> 0])

OpOperands == DOMAIN OpKind

OpLine(a, op, b) == "fun g() { } " \o a \o " " \o op \o " " \o b \o ";"

AdditionLines == {OpLine(a, "+", b) : a \in OpOperands, b \in OpOperands}

ComparisonOps == {"<", "<=", ">", ">="}

ComparisonLines ==
    {OpLine(a, op, b) : a \in OpOperands, op \in ComparisonOps, b \in OpOperands}

\* Function values: a and b are given functions named f or g that print 1
\* or 2, declared at the top level, or an f that prints 3, declared in a
\* block.
TopFunctionLine(n, b, x) ==
    "fun " \o n \o "() { print " \o b \o "; } var " \o x \o " = " \o n \o ";"

BlockFunctionLine(n, b, x) ==
    "{ fun " \o n \o "() { print " \o b \o "; } " \o x \o " = " \o n \o "; }"

IdentityLines ==
    {TopFunctionLine(n, b, x) : n \in {"f", "g"}, b \in {"1", "2"}, x \in {"a", "b"}}
        \cup {BlockFunctionLine("f", "3", x) : x \in {"a", "b"}}

\* Blocks: every line sets a and b to 1 and runs a block; body is the block,
\* a and b what the globals hold after it, err whether the block fails.
BlockRows ==
    {[body |-> "{ var a = 2; var c = 5; fun h() { } }", a |-> 1, b |-> 1, err |-> FALSE],
     [body |-> "{ var a = 2; a = 3; b = 4; }", a |-> 1, b |-> 4, err |-> FALSE],
     [body |-> "{ var a = 2; b = 4; var c = 5; 1 + nil; b = 6; }",
      a |-> 1, b |-> 4, err |-> TRUE],
     [body |-> "{ var a = 2; { var a = 3; b = a; var c = 5; } b = b + a; }",
      a |-> 1, b |-> 5, err |-> FALSE],
     [body |-> "{ b = 4; a = b; }", a |-> 4, b |-> 4, err |-> FALSE],
     [body |-> "{ var c; c = 7; fun h() { } a = c; }", a |-> 7, b |-> 1, err |-> FALSE]}

BlockLine(body) == "var a = 1; var b = 1; " \o body

BlockLines == {BlockLine(row.body) : row \in BlockRows}

\* Assignments chained and nested: the line, the name written last (target),
\* the name written first (inner) and the number assigned to it.
ChainRows ==
    {[line |-> "a = b = 1;", target |-> "a", inner |-> "b", n |-> 1],
     [line |-> "b = a = 2;", target |-> "b", inner |-> "a", n |-> 2],
     [line |-> "a = (b = 3);", target |-> "a", inner |-> "b", n |-> 3],
     [line |-> "a = a = 4;", target |-> "a", inner |-> "a", n |-> 4]}

ChainedSequence == "var a; var b; a = b = 1;"

ChainedLines ==
    {row.line : row \in ChainRows} \cup
    {ChainedSequence, "var a;", "var b = 5;", "a = 6;", "print a = 7;",
     "var c = a = 8;", "a = 9; print a;"}

\* Two counters made by two calls of mk, and every order of up to MaxCalls
\* calls of them in one line.
MaxCalls == 5

MkDef == "fun mk() { var x = 0; fun inc() { x = x + 1; return x; } return inc; }"

TwoCounters == MkDef \o " var c1 = mk(); var c2 = mk();"

TwoCountersSwapped == MkDef \o " var c2 = mk(); var c1 = mk();"

CallSeqs == UNION {[1..n -> {"c1", "c2"}] : n \in 1..MaxCalls}

RECURSIVE Calls(_)
Calls(w) ==
    IF Len(w) = 1 THEN "print " \o w[1] \o "();"
    ELSE "print " \o w[1] \o "(); " \o Calls(Tail(w))

IndependentLines == {TwoCounters, TwoCountersSwapped} \cup {Calls(w) : w \in CallSeqs}

Sessions ==
    {"counter", "scoping", "logic", "functions", "variables", "loops", "equality",
     "conditions", "addition", "comparison", "identity",
     "blocks", "chained", "independent"}

SessionLines(s) ==
    CASE s = "counter" -> CounterLines
      [] s = "scoping" -> ScopingLines
      [] s = "logic" -> LogicLines
      [] s = "functions" -> FunctionLines
      [] s = "variables" -> VariableLines
      [] s = "loops" -> LoopLines
      [] s = "equality" -> EqualityLines
      [] s = "conditions" -> ConditionLines
      [] s = "addition" -> AdditionLines
      [] s = "comparison" -> ComparisonLines
      [] s = "identity" -> IdentityLines
      [] s = "blocks" -> BlockLines
      [] s = "chained" -> ChainedLines
      [] s = "independent" -> IndependentLines

ReplInit(s) ==
    /\ session = s
    /\ envs = <<Environment_empty>>
    /\ line = ""
    /\ outcome = NoOutcome
    /\ out = << >>
    /\ scanSrc = << >>
    /\ scanOut = None
    /\ envOp = None
    /\ parseOut = None
    /\ iter = None

AllLines == UNION {SessionLines(s) : s \in Sessions}

\* front_end tabulated over the lines of the sessions.
Compiled == [buffer \in AllLines |-> front_end(Chars(buffer))]

\* Signal::Success(buffer): run(buffer, env.clone()).
Submit(buffer) ==
    /\ session \in Sessions
    /\ Len(envs) <= MaxEnvs
    /\ outcome.kind # "panic"
    /\ \E r \in {back_end(Compiled[buffer], envs)} :
           /\ envs' = r.envs
           /\ outcome' = r.res
           /\ out' = r.out
    /\ line' = buffer
    /\ UNCHANGED <<session, scanSrc, scanOut, envOp, parseOut, iter>>

run_repl == \E buffer \in SessionLines(session) : Submit(buffer)

SpecCounter == ReplInit("counter") /\ [][run_repl]_vars

SpecScoping == ReplInit("scoping") /\ [][run_repl]_vars

SpecLogic == ReplInit("logic") /\ [][run_repl]_vars

SpecFunctions == ReplInit("functions") /\ [][run_repl]_vars

SpecVariables == ReplInit("variables") /\ [][run_repl]_vars

SpecLoops == ReplInit("loops") /\ [][run_repl]_vars

SpecEquality == ReplInit("equality") /\ [][run_repl]_vars

SpecConditions == ReplInit("conditions") /\ [][run_repl]_vars

SpecAddition == ReplInit("addition") /\ [][run_repl]_vars

SpecComparison == ReplInit("comparison") /\ [][run_repl]_vars

SpecIdentity == ReplInit("identity") /\ [][run_repl]_vars

SpecBlocks == ReplInit("blocks") /\ [][run_repl]_vars

SpecChained == ReplInit("chained") /\ [][run_repl]_vars

SpecIndependent == ReplInit("independent") /\ [][run_repl]_vars

\* The global environment's binding of a name: None when undeclared.
Global(name) == get(envs, 1, name)

Value(r) == Outcome("value", r)

(***************************************************************************)
(* Closures                                                                *)
(***************************************************************************)
\* The numbers k+1 .. k+n as print writes them.
Printed(k, n) == [i \in 1..n |-> ToString(k + i)]

\* The number the counter returned last, read off the state: 0 after the setup
\* line alone, else the last line printed.
LastCount ==
    IF line = CounterSetup THEN 0
    ELSE CHOOSE k \in 0..(4 * MaxEnvs) : ToString(k) = out[Len(out)]

IsRuntimeError(kind) == outcome.kind = "runtime_error" /\ outcome.v.kind = kind

\* C4, as the design states it: a call with too few or too many arguments is a
\* TypeError and the body does not run (add's body prints), and a call of a
\* number, a string, nil or a boolean is a TypeError.
C4_ArityChecked ==
    /\ \A c \in ArityMismatches :
          line = CallLine(c) => IsRuntimeError("TypeError") /\ out = << >>
    /\ \A c \in NonFunctionCalls :
          line = CallLine(c) => IsRuntimeError("TypeError")

\* What the code does with one argument too few: the body runs with b unbound
\* and the call is Nil.
C4_Witness ==
    /\ line = CallLine("add(1);")
    /\ outcome = Value(Nil)
    /\ out = <<"body">>

\* What each operand function makes of itself as a condition.
Truthy == [t |-> TRUE, f |-> FALSE, n |-> FALSE]

\* The same for the operands without a call.
AssignTruthy == [a \in {"true", "false", "nil", "(y = x)"} |-> a = "true"]

\* C7: `a and b` evaluates a once, and b after it only when a is truthy;
\* `a or b` evaluates a once, and b after it only when a is falsy; a left
\* operand that is no condition (a number) is an error and b is not evaluated.
\* The operand functions print their names, so out is the order of evaluation;
\* without calls, x is 1 exactly when the right operand (x = 1) was evaluated,
\* and y, written by the left operand (y = x), is the x from before it.
C7_ShortCircuit ==
    /\ \A a \in LogicOperands, op \in {"and", "or"}, b \in LogicOperands :
          line = LogicLine(a, op, b)
            => IF a = "z" THEN IsRuntimeError("TypeError") /\ out = <<a>>
               ELSE /\ outcome.kind = "value"
                    /\ out = IF (op = "and") = Truthy[a] THEN <<a, b>> ELSE <<a>>
    /\ \A a \in AssignOperands, op \in {"and", "or"} :
          line = AssignLine(a, op)
            => IF a = "0"
               THEN IsRuntimeError("TypeError") /\ Global("x") = Some(Some(Number(0)))
               ELSE /\ outcome.kind = "value"
                    /\ Global("x") = Some(Some(Number(
                          IF (op = "and") = AssignTruthy[a] THEN 1 ELSE 0)))
                    /\ Global("y") = Some(Some(Number(IF a = "(y = x)" THEN 0 ELSE 5)))

\* A falsy left operand with an effect, and the right operand of `and` not
\* evaluated after it.
C7_Witness ==
    /\ line = AssignLine("(y = x)", "and")
    /\ outcome.kind = "value"
    /\ Global("x") = Some(Some(Number(0)))
    /\ Global("y") = Some(Some(Number(0)))

\* What each function of ReturnDefs returns and prints ("b" is never printed:
\* it follows a return).
ReturnExpected ==
    [r1 |-> [v |-> Number(1), out |-> <<"a">>],
     r2 |-> [v |-> Number(2), out |-> << >>],
     r3 |-> [v |-> Number(3), out |-> << >>],
     r4 |-> [v |-> Nil, out |-> <<"a">>],
     r5 |-> [v |-> Nil, out |-> <<"a">>],
     r6 |-> [v |-> Number(11), out |-> <<"a", "c">>]]

C9_VariableErrors ==
    /\ line \in VariableReads =>
          IF Global("x") = None
          THEN IsRuntimeError("UnknownIdentifier") /\ outcome.v.variable = "x"
          ELSE IF Global("x")[1] = None
          THEN IsRuntimeError("UninitializedVariable") /\ outcome.v.variable = "x"
          ELSE line = "x;" => outcome = Value(Global("x")[1][1])
    /\ line = "{ var x; x; }" =>
          IsRuntimeError("UninitializedVariable") /\ outcome.v.variable = "x"
    /\ line \in {"a = 1;", "a;", "{ var a = 5; } a;"} =>
          IsRuntimeError("UnknownIdentifier") /\ outcome.v.variable = "a"

\* A block's uninitialised x in front of an initialised global x.
C9_Witness ==
    /\ line = "{ var x; x; }"
    /\ Global("x") # None
    /\ Global("x")[1] # None
    /\ IsRuntimeError("UninitializedVariable")

(***************************************************************************)
(* Loops                                                                   *)
(***************************************************************************)
\* C5, as the design states it: the parenthesised for statement parses and
\* prints 0, 1, 2.
C5_ForParenthesised ==
    line = ForParenthesised => outcome.kind = "value" /\ out = <<"0", "1", "2">>

\* What the code does with it: for_statement reads a declaration or a statement
\* after `for`, and "(" opens a grouping that `var` cannot start.
C5_Witness ==
    /\ line = ForParenthesised
    /\ outcome.kind = "parse_error"
    /\ out = << >>

(***************************************************************************)
(* Equality                                                                *)
(***************************************************************************)
\* C1, as the design states it: == on two literals is true exactly when they
\* are the same value (here: the same literal), and != is its negation.
C1_ValueEquality ==
    \A a \in EqOperands, b \in EqOperands :
        /\ line = EqLine(a, "==", b) => outcome = Value(Boolean(a = b))
        /\ line = EqLine(a, "!=", b) => outcome = Value(Boolean(a # b))

\* What the code does with `1 == 1`: the operands are compared with the
\* positions of their expressions, which differ.
C1_Witness ==
    /\ line = EqLine("1", "==", "1")
    /\ outcome = Value(Boolean(FALSE))

(***************************************************************************)
(* The scanner on its own: a source is typed character by character and    *)
(* then scanned.                                                           *)
(***************************************************************************)
MaxSrcLen == 3

SourceChars == {"a", "1", ".", "\"", " ", "=", "@", "U+00E9", "U+00B2"}

Type(c) ==
    /\ scanOut = None
    /\ Len(scanSrc) < MaxSrcLen
    /\ scanSrc' = Append(scanSrc, c)
    /\ UNCHANGED <<session, envs, line, outcome, out, scanOut, envOp, parseOut, iter>>

\* Scanner::new(source).scan()
Scan ==
    /\ scanOut = None
    /\ scanOut' = Some(scan(scanSrc))
    /\ UNCHANGED <<session, envs, line, outcome, out, scanSrc, envOp, parseOut, iter>>

ScanNext == (\E c \in SourceChars : Type(c)) \/ Scan

SpecScan == ReplInit("scanner") /\ [][ScanNext]_vars

\* C10, as the design states it: scan returns for every source; it never
\* aborts.
C10_ScanNeverPanics == scanOut # None => ~scanOut[1].panic

\* An identifier that ends in a two-byte character: substring slices up to the
\* first byte of it.
C10_Witness ==
    /\ scanSrc = <<"a", "U+00E9">>
    /\ scanOut # None
    /\ scanOut[1].panic

(***************************************************************************)
(* The environment chain on its own (environment.rs): scopes are made with  *)
(* wrap, names declared with register, written with assign, read with get. *)
(***************************************************************************)
MaxScopes == 3

EnvNames == {"a"}

Op(op, e, key, value, res) ==
    [op |-> op, e |-> e, key |-> key, value |-> value, res |-> res]

\* Environment::wrap(parent)
EnvWrap(parent) ==
    /\ Len(envs) < MaxScopes
    /\ envs' = Append(envs, wrap(parent))
    /\ envOp' = Some(Op("wrap", parent, "", Nil, Nil))
    /\ UNCHANGED <<session, line, outcome, out, scanSrc, scanOut, parseOut, iter>>

\* env.register(key, value): value is None for `var key;`.
EnvRegister(e, key, value) ==
    /\ envs' = [envs EXCEPT ![e] = register(envs[e], key, value)]
    /\ envOp' = Some(Op("register", e, key, value, Nil))
    /\ UNCHANGED <<session, line, outcome, out, scanSrc, scanOut, parseOut, iter>>

\* env.assign(key, value)
EnvAssign(e, key, value) ==
    \E r \in {assign(envs, e, key, value)} :
        /\ envs' = r.heap
        /\ envOp' = Some(Op("assign", e, key, value, r.b))
        /\ UNCHANGED <<session, line, outcome, out, scanSrc, scanOut, parseOut, iter>>

\* env.get(key)
EnvGet(e, key) ==
    /\ envOp' = Some(Op("get", e, key, Nil, get(envs, e, key)))
    /\ UNCHANGED <<session, envs, line, outcome, out, scanSrc, scanOut, parseOut, iter>>

EnvNext ==
    \E e \in 1..Len(envs), key \in EnvNames :
        \/ EnvWrap(e)
        \/ \E value \in {None, Some(Number(1))} : EnvRegister(e, key, value)
        \/ EnvAssign(e, key, Number(2))
        \/ EnvGet(e, key)

SpecEnv == ReplInit("environment") /\ [][EnvNext]_vars

RECURSIVE Scopes(_, _)
\* The scope e and its ancestors.
Scopes(heap, e) ==
    {e} \cup (IF heap[e].parent = None THEN {} ELSE Scopes(heap, heap[e].parent[1]))

\* Some scope on the chain of e has declared key, with or without a value.
Declared(heap, e, key) == \E s \in Scopes(heap, e) : key \in DOMAIN heap[s].variables

\* C6: assign(name, v) on a scope returns true exactly when the scope or an
\* ancestor has declared name, and the get(name) on the same scope that
\* follows it is then v; when assign returned false, that get finds nothing.
C6_ChainSoundness ==
    [][/\ (envOp' # None /\ envOp'[1].op = "assign")
            => envOp'[1].res = Declared(envs, envOp'[1].e, envOp'[1].key)
       /\ (/\ envOp # None /\ envOp[1].op = "assign"
           /\ envOp' # None /\ envOp'[1].op = "get"
           /\ envOp'[1].e = envOp[1].e /\ envOp'[1].key = envOp[1].key)
            => envOp'[1].res = IF envOp[1].res THEN Some(Some(envOp[1].value))
                               ELSE None]_vars

\* A get on a grandchild that reads what an assign wrote to the root through
\* two scopes that do not declare the name.
C6_Witness ==
    /\ envOp # None /\ envOp[1].op = "get" /\ envOp[1].e = 3 /\ envOp[1].key = "a"
    /\ envOp[1].res = Some(Some(Number(2)))
    /\ Len(envs) = 3
    /\ envs[3].parent = Some(2) /\ envs[2].parent = Some(1)
    /\ ~contains_key(envs[3], "a") /\ ~contains_key(envs[2], "a")

(***************************************************************************)
(* The parser on its own: parse applied to the first n tokens of a         *)
(* program, for every n.                                                   *)
(***************************************************************************)
MaxTokens == 15

ParsePrograms ==
    {"if x print 1; else print 2;", "while x print 1;", "print 1;", "var a = 1;",
     "print (1 + 2) * 3;", "{ print 1; }", "fun f(a) { print a; }",
     "a = b = 1 + 2 * 3;", "print -f(a, 1);", "print !(a and b) < 1;",
     "1 = 2;", "(a) = 3;", "a + b = c;", "f() = 1;", "a = 1;",
     "print a or b and c == d < e + f * g;", "print a - b - c;",
     "print a * b + c;", "print a < b == c;", "print a and b or c;",
     "print a / b / c;", "print (a or b) and c;", "a = b or c;",
     "print a + b < c;", "print a == b and c;", "print 1 + 2 * 3;",
     "return;", "return 1;", "return;;", "f(a)(b, c);",
     "for ; a; a = b; print a;", "{ { } a; }"}

\* Scanner::new(source).scan() tabulated over the programs.
Scanned == [p \in ParsePrograms |-> scan(Chars(p)).tokens]

FirstTokens(p, n) == SubSeq(Scanned[p], 1, n)

\* parse tabulated over the prefixes of the programs.
Parsed ==
    [p \in ParsePrograms |->
        [n \in 0..Len(Scanned[p]) |-> parse(FirstTokens(p, n))]]

\* parser::parse(&tokens) for the first n tokens of program p.
Parse(p, n) ==
    /\ n <= Len(Scanned[p])
    /\ n <= MaxTokens
    /\ line' = p
    /\ parseOut' = Some([n |-> n, tokens |-> FirstTokens(p, n), res |-> Parsed[p][n]])
    /\ UNCHANGED <<session, envs, outcome, out, scanSrc, scanOut, envOp, iter>>

ParseNext == \E p \in ParsePrograms : \E n \in 0..MaxTokens : Parse(p, n)

SpecParse == ReplInit("parser") /\ [][ParseNext]_vars

\* The tokens of variant k among the tokens parsed.
CountOf(tokens, k) == Cardinality({j \in 1..Len(tokens) : tokens[j].token_type.k = k})

\* As many delimiters closed as opened among the tokens parsed.
Balanced(tokens) ==
    /\ CountOf(tokens, "LeftParent") = CountOf(tokens, "RightParent")
    /\ CountOf(tokens, "LeftBrace") = CountOf(tokens, "RightBrace")

\* The whole program parses and its first n tokens do not: the parser went
\* the same way on both until the stream ended where it wanted a token.
EndsEarly ==
    /\ parseOut # None
    /\ Parsed[line][Len(Scanned[line])].err = None
    /\ parseOut[1].n < Len(Scanned[line])
    /\ parseOut[1].res.err # None

ParseErrorKind == parseOut[1].res.err[1].kind

\* C11, as the design states it: parse returns statements or a ParseError
\* for every token sequence, the empty one included, and where the stream
\* ends with a token expected and no delimiter open it returns
\* UnexpectedEndOfTokenStream.
C11_EndOfStream ==
    parseOut # None =>
        /\ parseOut[1].res.err # None => ParseErrorKind # "panic"
        /\ EndsEarly /\ Balanced(parseOut[1].tokens) =>
               ParseErrorKind = "UnexpectedEndOfTokenStream"

\* The stream ends after "var": UnexpectedEndOfTokenStream.
C11_Witness ==
    /\ EndsEarly
    /\ Balanced(parseOut[1].tokens)
    /\ parseOut[1].n > 0
    /\ ParseErrorKind = "UnexpectedEndOfTokenStream"

RECURSIVE OpenDelimiters(_, _, _)
\* The indices of the opening delimiters among tokens[j..] that nothing
\* closes, innermost last, after those of open.
OpenDelimiters(tokens, j, open) ==
    IF j > Len(tokens) THEN open
    ELSE IF tokens[j].token_type.k \in {"LeftParent", "LeftBrace"}
    THEN OpenDelimiters(tokens, j + 1, Append(open, j))
    ELSE IF tokens[j].token_type.k \in {"RightParent", "RightBrace"} /\ open # << >>
    THEN OpenDelimiters(tokens, j + 1, SubSeq(open, 1, Len(open) - 1))
    ELSE OpenDelimiters(tokens, j + 1, open)

\* The innermost open delimiter of the tokens parsed.
Opening ==
    Let([open \in {OpenDelimiters(parseOut[1].tokens, 1, << >>)} |->
        parseOut[1].tokens[open[Len(open)]]])

OpeningIndex ==
    Let([open \in {OpenDelimiters(parseOut[1].tokens, 1, << >>)} |-> open[Len(open)]])

\* The stream ends where the whole program goes on with the delimiter that
\* closes a grouping, a block or a function body.
DelimiterOwed ==
    /\ EndsEarly
    /\ Scanned[line][parseOut[1].n + 1].token_type.k \in {"RightParent", "RightBrace"}
    /\ \/ Opening.token_type.k = "LeftBrace"
       \/ OpeningIndex = 1
       \/ parseOut[1].tokens[OpeningIndex - 1].token_type.k # "Identifier"

LastToken == parseOut[1].tokens[parseOut[1].n]

\* C12, as the design states it: where the stream ends with the closing
\* delimiter of a grouping, a block or a function body owed, the error is
\* UnclosedDelimiter with the position of the opening delimiter and a
\* position at the end of the last token.
C12_UnclosedDelimiter ==
    DelimiterOwed =>
        /\ ParseErrorKind = "UnclosedDelimiter"
        /\ parseOut[1].res.err[1].start_position = Opening.position
        /\ parseOut[1].res.err[1].end_position.absolute = end_position(LastToken.position)

\* The stream ends inside a grouping: UnclosedDelimiter as stated.
C12_Witness ==
    /\ DelimiterOwed
    /\ Opening.token_type.k = "LeftParent"
    /\ ParseErrorKind = "UnclosedDelimiter"
    /\ parseOut[1].res.err[1].start_position = Opening.position
    /\ parseOut[1].res.err[1].end_position.absolute = end_position(LastToken.position)

\* The span of child lies within the span of node.
Within(child, node) ==
    /\ child.position.absolute >= node.position.absolute
    /\ end_position(child.position) <= end_position(node.position)

RECURSIVE SpansCover(_)
\* Every composite node of the expression e covers its children; a Binary or
\* Logical node starts with its left and ends with its right operand, an
\* Assignment ends with its value.
SpansCover(e) ==
    Let([x \in {e.expression} |->
        CASE x.k \in {"Grouping", "Unary"} -> Within(x.inner, e) /\ SpansCover(x.inner)
          [] x.k \in {"Binary", "Logical"} ->
                /\ e.position.absolute = x.left.position.absolute
                /\ end_position(e.position) = end_position(x.right.position)
                /\ SpansCover(x.left)
                /\ SpansCover(x.right)
          [] x.k = "Assignment" ->
                /\ Within(x.value, e)
                /\ end_position(e.position) = end_position(x.value.position)
                /\ SpansCover(x.value)
          [] x.k = "Call" ->
                /\ Within(x.callee, e)
                /\ SpansCover(x.callee)
                /\ \A j \in 1..Len(x.arguments) :
                       Within(x.arguments[j], e) /\ SpansCover(x.arguments[j])
          [] OTHER -> TRUE])

RECURSIVE StatementSpansCover(_)
StatementSpansCover(s) ==
    CASE s.k \in {"Print", "Expression"} -> SpansCover(s.expr)
      [] s.k = "Var" -> s.initializer = None \/ SpansCover(s.initializer[1])
      [] s.k = "If" ->
            /\ SpansCover(s.condition)
            /\ StatementSpansCover(s.then_branch)
            /\ s.else_branch = None \/ StatementSpansCover(s.else_branch[1])
      [] s.k = "While" -> SpansCover(s.condition) /\ StatementSpansCover(s.body)
      [] s.k = "Block" ->
            \A j \in 1..Len(s.statements) : StatementSpansCover(s.statements[j])
      [] OTHER -> TRUE

\* parse returned statements.
ParsedOk == parseOut # None /\ parseOut[1].res.err = None

\* C13, as the design states it: every composite expression node the parser
\* makes covers its children.
C13_SpansCover ==
    ParsedOk =>
        \A j \in 1..Len(parseOut[1].res.v) : StatementSpansCover(parseOut[1].res.v[j])

\* A product of a grouping and a literal whose spans cover their children.
C13_Witness ==
    /\ ParsedOk
    /\ line = "print (1 + 2) * 3;"
    /\ parseOut[1].res.v[1].expr.expression.k = "Binary"
    /\ parseOut[1].res.v[1].expr.expression.left.expression.k = "Grouping"
    /\ StatementSpansCover(parseOut[1].res.v[1])

\* The index of the first "=" among the tokens parsed, 0 when there is none.
FirstEqual ==
    Let([at \in {{j \in 1..parseOut[1].n : parseOut[1].tokens[j].token_type.k = "Equal"}} |->
        IF at = {} THEN 0 ELSE CHOOSE j \in at : \A m \in at : j <= m])

\* The whole of a program "left = right;" was parsed.
IsAssignment ==
    /\ parseOut # None
    /\ parseOut[1].n = Len(Scanned[line])
    /\ parseOut[1].tokens[1].token_type.k \in {"Identifier", "Number", "LeftParent"}
    /\ FirstEqual > 1

\* The left-hand expression as the parser reads it from the tokens before
\* the "=".
LeftHand == parse_bi_op(TokenIter_new(FirstTokens(line, FirstEqual - 1)), 1, OrLevel).v

\* C14: "left = right" parses to an Assignment to the name of left exactly
\* when left is a bare Variable; otherwise parse fails with
\* InvalidAssignmentTarget at the position of left.
C14_AssignmentTarget ==
    IsAssignment =>
        IF LeftHand.expression.k = "Variable"
        THEN /\ ParsedOk
             /\ parseOut[1].res.v[1].k = "Expression"
             /\ parseOut[1].res.v[1].expr.expression.k = "Assignment"
             /\ parseOut[1].res.v[1].expr.expression.name = LeftHand.expression.name
        ELSE /\ ~ParsedOk
             /\ ParseErrorKind = "InvalidAssignmentTarget"
             /\ parseOut[1].res.err[1].position = LeftHand.position

\* "(a) = 3;" was parsed: the target is a grouping that starts at 0 and is 3
\* long.
C14_Witness ==
    /\ IsAssignment
    /\ LeftHand.expression.k = "Grouping"
    /\ ParseErrorKind = "InvalidAssignmentTarget"
    /\ parseOut[1].res.err[1].position = Position_new(0, 3)

(***************************************************************************)
(* Conditions and the values of `and` and `or`                             *)
(***************************************************************************)
\* C15: as the condition of if and while, the operand of ! and the left
\* operand of `and` and `or`, true is truthy, false and nil are falsy, and
\* any other value is a TypeError.
C15_Truthiness ==
    \A a \in CondOperands :
        /\ line = IfLine(a) =>
               CASE CondKind[a] = "t" -> outcome.kind = "value" /\ out = <<"then">>
                 [] CondKind[a] = "f" -> outcome.kind = "value" /\ out = <<"else">>
                 [] CondKind[a] = "e" -> IsRuntimeError("TypeError") /\ out = << >>
        /\ line = WhileLine(a) =>
               CASE CondKind[a] = "t" ->
                        outcome.kind = "value" /\ Global("x") = Some(Some(Nil))
                 [] CondKind[a] = "f" ->
                        outcome.kind = "value" /\ Global("x") = Some(Some(Number(0)))
                 [] CondKind[a] = "e" ->
                        IsRuntimeError("TypeError") /\ Global("x") = Some(Some(Number(0)))
        /\ line = NotLine(a) =>
               CASE CondKind[a] = "t" -> outcome = Value(Boolean(FALSE))
                 [] CondKind[a] = "f" -> outcome = Value(Boolean(TRUE))
                 [] CondKind[a] = "e" -> IsRuntimeError("TypeError")
        /\ line = AndLine(a, "true") =>
               CASE CondKind[a] = "t" -> outcome = Value(Boolean(TRUE))
                 [] CondKind[a] = "f" -> outcome = Value(Boolean(FALSE))
                 [] CondKind[a] = "e" -> IsRuntimeError("TypeError")
        /\ line = OrLine(a, "false") =>
               CASE CondKind[a] = "t" -> outcome = Value(Boolean(TRUE))
                 [] CondKind[a] = "f" -> outcome = Value(Boolean(FALSE))
                 [] CondKind[a] = "e" -> IsRuntimeError("TypeError")

\* A string as the condition of a while: a TypeError, and the body did not
\* run.
C15_Witness ==
    /\ line = WhileLine("\"true\"")
    /\ IsRuntimeError("TypeError")
    /\ Global("x") = Some(Some(Number(0)))

\* C18, as the design states it: an `and` or `or` that evaluates without
\* error is a Boolean: false for `and` after a falsy left operand, true for
\* `or` after a truthy one, and else what the right operand is as a
\* condition.
C18_LogicalIsBoolean ==
    \A a \in {"true", "false", "nil"}, b \in CondOperands :
        /\ line = AndLine(a, b) /\ outcome.kind = "value" =>
               /\ outcome.v.t = "Boolean"
               /\ CondKind[a] = "f" => outcome.v.b = FALSE
               /\ CondKind[a] = "t" /\ CondKind[b] # "e" => outcome.v.b = (CondKind[b] = "t")
        /\ line = OrLine(a, b) /\ outcome.kind = "value" =>
               /\ outcome.v.t = "Boolean"
               /\ CondKind[a] = "t" => outcome.v.b = TRUE
               /\ CondKind[a] = "f" /\ CondKind[b] # "e" => outcome.v.b = (CondKind[b] = "t")

\* `nil or (1 < 2)` is the right operand's Boolean(true).
C18_Witness ==
    /\ line = OrLine("nil", "(1 < 2)")
    /\ outcome = Value(Boolean(TRUE))

(***************************************************************************)
(* + and the comparisons                                                   *)
(***************************************************************************)
\* The string an operand of type Str writes: its text without the quotes.
Unquoted(a) == SubSeq(a, 2, Len(a) - 1)

\* C16: l + r is the sum of two numbers and the concatenation of two
\* strings, l first; every other pair of operands is a TypeError.
C16_Add ==
    \A a \in OpOperands, b \in OpOperands :
        line = OpLine(a, "+", b) =>
            IF OpKind[a].t = "Number" /\ OpKind[b].t = "Number"
            THEN outcome = Value(Number(OpKind[a].rank + OpKind[b].rank))
            ELSE IF OpKind[a].t = "Str" /\ OpKind[b].t = "Str"
            THEN outcome = Value(Str(Unquoted(a) \o Unquoted(b)))
            ELSE IsRuntimeError("TypeError")

\* "ab" + "b" is "abb".
C16_Witness ==
    /\ line = OpLine("\"ab\"", "+", "\"b\"")
    /\ outcome = Value(Str("abb"))

\* What op makes of the ranks of two operands of one type.
Ordered(l, op, r) ==
    CASE op = "<" -> l < r
      [] op = "<=" -> l <= r
      [] op = ">" -> l > r
      [] op = ">=" -> l >= r

\* C17: a comparison never raises; two numbers, two booleans and two strings
\* are ordered (false before true, strings lexicographically), and every
\* other pair of operands compares false.
C17_Compare ==
    \A a \in OpOperands, op \in ComparisonOps, b \in OpOperands :
        line = OpLine(a, op, b) =>
            IF OpKind[a].t = OpKind[b].t /\ OpKind[a].t \in {"Number", "Boolean", "Str"}
            THEN outcome = Value(Boolean(Ordered(OpKind[a].rank, op, OpKind[b].rank)))
            ELSE outcome = Value(Boolean(FALSE))

\* "ab" comes before "b".
C17_Witness ==
    /\ line = OpLine("\"ab\"", "<", "\"b\"")
    /\ outcome = Value(Boolean(TRUE))

(***************************************************************************)
(* Precedence                                                              *)
(***************************************************************************)
RECURSIVE Shape(_)
\* The expression e written with every operation in parentheses.
Shape(e) ==
    Let([x \in {e.expression} |->
        CASE x.k \in {"Binary", "Logical"} ->
                 "(" \o Shape(x.left) \o " " \o x.op \o " " \o Shape(x.right) \o ")"
          [] x.k = "Assignment" -> "(" \o x.name \o " = " \o Shape(x.value) \o ")"
          [] x.k = "Variable" -> x.name
          [] x.k = "Literal" -> ToString(x.lit.value)
          [] x.k = "Grouping" -> "group" \o Shape(x.inner)
          [] x.k = "Unary" -> "(" \o x.op \o " " \o Shape(x.inner) \o ")"
          [] OTHER -> "?"])

\* The expression of the one statement parsed, in parentheses.
ParsedShape == Shape(parseOut[1].res.v[1].expr)

\* What the grammar's cascade makes of the programs that mix levels.
Cascade ==
    ("print 1 + 2 * 3;" :> "(1 Add (2 Multiply 3))")
        @@ ("print a * b + c;" :> "((a Multiply b) Add c)")
        @@ ("print a + b < c;" :> "((a Add b) LessThan c)")
        @@ ("print a < b == c;" :> "((a LessThan b) Equals c)")
        @@ ("print a == b and c;" :> "((a Equals b) And c)")
        @@ ("print a and b or c;" :> "((a And b) Or c)")
        @@ ("a = b or c;" :> "(a = (b Or c))")
        @@ ("print a or b and c == d < e + f * g;"
                :> "(a Or (b And (c Equals (d LessThan (e Add (f Multiply g))))))")
        @@ ("print a - b - c;" :> "((a Subtract b) Subtract c)")
        @@ ("print a / b / c;" :> "((a Divide b) Divide c)")
        @@ ("a = b = 1 + 2 * 3;" :> "(a = (b = (1 Add (2 Multiply 3))))")

\* What the statements parsed print when evaluated in an empty environment.
ParsedPrints ==
    back_end([res |-> Outcome("parsed", Nil), program |-> parseOut[1].res.v],
             <<Environment_empty>>).out

\* C19: the parser reads * and / before + and -, these before the
\* comparisons, then equality, `and`, `or` and assignment; the operators of
\* one level group to the left, assignments to the right; `print 1 + 2 * 3;`
\* prints 7.
C19_Precedence ==
    \A p \in DOMAIN Cascade :
        line = p /\ parseOut[1].n = Len(Scanned[p]) =>
            /\ ParsedOk
            /\ ParsedShape = Cascade[p]
            /\ p = "print 1 + 2 * 3;" => ParsedPrints = <<"7">>

\* The whole of `print 1 + 2 * 3;` parsed: the product is the right operand
\* of the sum.
C19_Witness ==
    /\ ParsedOk
    /\ line = "print 1 + 2 * 3;"
    /\ parseOut[1].n = Len(Scanned[line])
    /\ parseOut[1].res.v[1].expr.expression.op = "Add"
    /\ parseOut[1].res.v[1].expr.expression.right.expression.op = "Multiply"

(***************************************************************************)
(* The SourceIterator on its own: peek, peek_next and next in any order on *)
(* a source of up to MaxSrcLen characters.                                 *)
(***************************************************************************)
IterChars == {"a", "1", "U+00E9"}

IterSources == UNION {[1..n -> IterChars] : n \in 0..MaxSrcLen}

\* SourceIterator::new(text)
IterInit ==
    /\ session = "iterator"
    /\ envs = <<Environment_empty>>
    /\ line = ""
    /\ outcome = NoOutcome
    /\ out = << >>
    /\ scanSrc \in IterSources
    /\ scanOut = None
    /\ envOp = None
    /\ parseOut = None
    /\ iter = [it |-> SourceIterator_new(scanSrc), taken |-> << >>]

IterPeek ==
    /\ iter' = [iter EXCEPT !.it = iter_peek(iter.it).it]
    /\ UNCHANGED <<session, envs, line, outcome, out, scanSrc, scanOut, envOp, parseOut>>

IterPeekNext ==
    /\ iter' = [iter EXCEPT !.it = iter_peek_next(iter.it).it]
    /\ UNCHANGED <<session, envs, line, outcome, out, scanSrc, scanOut, envOp, parseOut>>

\* next(), while it has returned at most one None.
IterNext ==
    /\ Len(iter.taken) <= Len(scanSrc)
    /\ \E r \in {iter_next(iter.it)} :
           iter' = [it |-> r.it, taken |-> Append(iter.taken, r.e)]
    /\ UNCHANGED <<session, envs, line, outcome, out, scanSrc, scanOut, envOp, parseOut>>

IterStep == IterPeek \/ IterPeekNext \/ IterNext

SpecIter == IterInit /\ [][IterStep]_vars

\* The bytes of the characters of the source before the j-th.
BytesBefore(j) == (j - 1) + Cardinality({m \in 1..(j - 1) : scanSrc[m] \in TwoByteChars})

\* C20: whatever the order of the calls, the results of next() are the
\* characters of the source in order, each with the number of bytes before
\* it, and None after the last.
C20_NextInOrder ==
    iter # None =>
        \A j \in 1..Len(iter.taken) :
            iter.taken[j] = IF j <= Len(scanSrc)
                            THEN Some(Entry(scanSrc[j], BytesBefore(j)))
                            ELSE None

\* After a two-byte character, next() returned with both lookahead slots
\* full: the second character, at byte 2.
C20_Witness ==
    /\ iter # None
    /\ Len(scanSrc) = 3
    /\ scanSrc[1] = "U+00E9"
    /\ Len(iter.taken) = 2
    /\ iter.taken[2] = Some(Entry(scanSrc[2], 2))
    /\ iter.it.peek = Some(Some(scanSrc[3]))
    /\ iter.it.peek_next = Some(None)

(***************************************************************************)
(* The SourceIterator's lookahead and its scanning helpers: every call in  *)
(* any order, each recorded with the iterator it was made on.              *)
(***************************************************************************)
CompareChars == {"!", "=", "<", ">"}

\* What follows a comparison character in the sources for the scanner.
LexerTails ==
    {<<"=">>, <<"a">>, <<"=", "=">>, <<"=", "a">>, <<"!", "=">>, <<" ", "=">>}

LexerSources == {<<c>> \o t : c \in CompareChars, t \in LexerTails}

CursorSources == IterSources \cup LexerSources

\* The characters next_match and scan_until are asked for.
CursorArgs == {"a", "=", "U+00E9"}

Called(before, op, arg, it, res) ==
    [it |-> it, before |-> before, op |-> op, arg |-> arg, res |-> res]

\* SourceIterator::new(text)
CursorInit ==
    /\ session = "cursor"
    /\ envs = <<Environment_empty>>
    /\ line = ""
    /\ outcome = NoOutcome
    /\ out = << >>
    /\ scanSrc \in CursorSources
    /\ scanOut = None
    /\ envOp = None
    /\ parseOut = None
    /\ iter = Called(SourceIterator_new(scanSrc), "new", "", SourceIterator_new(scanSrc), None)

CursorPeek ==
    /\ \E r \in {iter_peek(iter.it)} : iter' = Called(iter.it, "peek", "", r.it, r.c)
    /\ UNCHANGED <<session, envs, line, outcome, out, scanSrc, scanOut, envOp, parseOut>>

CursorPeekNext ==
    /\ \E r \in {iter_peek_next(iter.it)} :
           iter' = Called(iter.it, "peek_next", "", r.it, r.c)
    /\ UNCHANGED <<session, envs, line, outcome, out, scanSrc, scanOut, envOp, parseOut>>

CursorNext ==
    /\ \E r \in {iter_next(iter.it)} : iter' = Called(iter.it, "next", "", r.it, r.e)
    /\ UNCHANGED <<session, envs, line, outcome, out, scanSrc, scanOut, envOp, parseOut>>

CursorNextMatch(expected) ==
    /\ \E r \in {next_match(iter.it, expected)} :
           iter' = Called(iter.it, "next_match", expected, r.it, r.b)
    /\ UNCHANGED <<session, envs, line, outcome, out, scanSrc, scanOut, envOp, parseOut>>

CursorScanUntil(target) ==
    /\ \E r \in {scan_until(iter.it, target)} :
           iter' = Called(iter.it, "scan_until", target, r.it, r.e)
    /\ UNCHANGED <<session, envs, line, outcome, out, scanSrc, scanOut, envOp, parseOut>>

\* Scanner::new(source).scan() on the same source.
CursorScan ==
    /\ scanOut = None
    /\ scanOut' = Some(scan(scanSrc))
    /\ UNCHANGED <<session, envs, line, outcome, out, scanSrc, envOp, parseOut, iter>>

CursorStep ==
    \/ CursorPeek
    \/ CursorPeekNext
    \/ CursorNext
    \/ \E c \in CursorArgs : CursorNextMatch(c)
    \/ \E c \in CursorArgs : CursorScanUntil(c)
    \/ CursorScan

SpecCursor == CursorInit /\ [][CursorStep]_vars

RECURSIVE Drain(_)
\* What the calls of next() on the iterator it return until the first None.
Drain(it) ==
    Let([n \in {iter_next(it)} |-> IF n.e = None THEN << >> ELSE <<n.e[1]>> \o Drain(n.it)])

DrainBefore == Drain(iter.before)

DrainAfter == Drain(iter.it)

\* The value of the j-th entry of d, if there is one.
ValueAt(d, j) == IF j <= Len(d) THEN Some(d[j].value) ELSE None

\* The entries of the source from the j-th on.
SourceFrom(j) == [m \in 1..(Len(scanSrc) + 1 - j) |-> Entry(scanSrc[m + j - 1],
                                                            BytesBefore(m + j - 1))]

\* C21: peek() returns the character the next next() returns and peek_next()
\* the one after it, None when there is none; a repeated call returns the
\* same, and neither changes what the calls of next() return, which are the
\* rest of the source with its byte offsets.
C21_PeekLooksAhead ==
    session = "cursor" /\ iter.op \in {"peek", "peek_next"} =>
        /\ iter.op = "peek" =>
               iter.res = ValueAt(DrainBefore, 1) /\ iter_peek(iter.it).c = iter.res
        /\ iter.op = "peek_next" =>
               iter.res = ValueAt(DrainBefore, 2) /\ iter_peek_next(iter.it).c = iter.res
        /\ DrainAfter = DrainBefore
        /\ DrainAfter = SourceFrom(Len(scanSrc) + 1 - Len(DrainAfter))

\* peek_next() called with both slots full, after a two-byte character was
\* consumed.
C21_Witness ==
    /\ session = "cursor"
    /\ iter.op = "peek_next"
    /\ iter.before.peek_next # None
    /\ iter.res # None
    /\ Len(DrainAfter) = 2
    /\ DrainAfter[1].position = 2

\* The tokens the comparison characters make, alone and with "=".
OneCharName == ("!" :> "Bang") @@ ("=" :> "Equal") @@ ("<" :> "Less") @@ (">" :> "Greater")

TwoCharName ==
    ("!" :> "BangEqual") @@ ("=" :> "EqualEqual") @@ ("<" :> "LessEqual")
        @@ (">" :> "GreaterEqual")

\* The token after the first one, for each tail: its variant and where it
\* starts.
SecondToken ==
    (<<"=">> :> None) @@ (<<"a">> :> Some(<<"Identifier", 1>>))
        @@ (<<"=", "=">> :> Some(<<"Equal", 2>>))
        @@ (<<"=", "a">> :> Some(<<"Identifier", 2>>))
        @@ (<<"!", "=">> :> Some(<<"BangEqual", 1>>))
        @@ (<<" ", "=">> :> Some(<<"Equal", 2>>))

\* C22: next_match(expected) returns true and consumes one character when
\* the next character is expected, and else returns false and consumes
\* nothing; so the scanner makes one token of "!", "=", "<", ">" and an "="
\* right after it, and else a one-character token, and the next token starts
\* with the character after.
C22_NextMatch ==
    session = "cursor" =>
        /\ iter.op = "next_match" =>
               /\ iter.res = (ValueAt(DrainBefore, 1) = Some(iter.arg))
               /\ DrainAfter = IF iter.res THEN Tail(DrainBefore) ELSE DrainBefore
        /\ \A c \in CompareChars, t \in LexerTails :
               scanSrc = <<c>> \o t /\ scanOut # None =>
                   /\ ~scanOut[1].panic
                   /\ scanOut[1].error = ""
                   /\ scanOut[1].tokens[1].token_type.k =
                          IF t[1] = "=" THEN TwoCharName[c] ELSE OneCharName[c]
                   /\ scanOut[1].tokens[1].position =
                          Position_new(0, IF t[1] = "=" THEN 2 ELSE 1)
                   /\ IF SecondToken[t] = None THEN Len(scanOut[1].tokens) = 1
                      ELSE /\ Len(scanOut[1].tokens) = 2
                           /\ scanOut[1].tokens[2].token_type.k = SecondToken[t][1][1]
                           /\ scanOut[1].tokens[2].position.absolute = SecondToken[t][1][2]

\* next_match("=") consumed the "=" of "<=a", which the scanner reads as
\* LessEqual and an identifier.
C22_Witness ==
    /\ session = "cursor"
    /\ scanSrc = <<"<", "=", "a">>
    /\ iter.op = "next_match"
    /\ iter.arg = "="
    /\ iter.res = TRUE
    /\ DrainAfter = <<Entry("a", 2)>>
    /\ scanOut # None
    /\ scanOut[1].tokens[1].token_type.k = "LessEqual"

\* The places of target among the entries d.
Hits(d, target) == {j \in 1..Len(d) : d[j].value = target}

\* C23: scan_until(target) consumes up to and including the first target and
\* returns it with its byte offset, so that next() goes on right after it;
\* without a target in the rest of the source it returns None and leaves
\* nothing for next().
C23_ScanUntil ==
    session = "cursor" /\ iter.op = "scan_until" =>
        IF Hits(DrainBefore, iter.arg) = {}
        THEN iter.res = None /\ DrainAfter = << >> /\ iter_next(iter.it).e = None
        ELSE \E j \in Hits(DrainBefore, iter.arg) :
                 /\ \A m \in Hits(DrainBefore, iter.arg) : j <= m
                 /\ iter.res = Some(DrainBefore[j])
                 /\ DrainAfter = SubSeq(DrainBefore, j + 1, Len(DrainBefore))
                 /\ DrainBefore = SourceFrom(Len(scanSrc) + 1 - Len(DrainBefore))

\* scan_until("a") skipped a two-byte character and found the first of two
\* targets at byte 2, with the lookahead slots in use.
C23_Witness ==
    /\ session = "cursor"
    /\ scanSrc = <<"U+00E9", "a", "a">>
    /\ iter.op = "scan_until"
    /\ iter.arg = "a"
    /\ iter.before.peek_next # None
    /\ iter.res = Some(Entry("a", 2))
    /\ DrainAfter = <<Entry("a", 3)>>

(***************************************************************************)
(* The return statement                                                    *)
(***************************************************************************)
\* The whole of the program p was parsed.
ParsedWhole(p) == parseOut # None /\ line = p /\ parseOut[1].n = Len(Scanned[p])

\* C24, as the design states it: `return ;` parses to a Return without a
\* value and takes those two tokens, `return e ;` to a Return of e; one
\* semicolon ends the statement.
C24_ReturnStatement ==
    /\ ParsedWhole("return;") =>
           /\ ParsedOk
           /\ parseOut[1].res.v = <<[k |-> "Return", expr |-> None]>>
           /\ parseOut[1].res.i = 3
    /\ ParsedWhole("return 1;") =>
           /\ ParsedOk
           /\ Len(parseOut[1].res.v) = 1
           /\ parseOut[1].res.v[1].k = "Return"
           /\ parseOut[1].res.v[1].expr # None
           /\ Shape(parseOut[1].res.v[1].expr[1]) = "1"
           /\ parseOut[1].res.i = 4

\* `return 1;` parsed to a Return of the literal.
C24_Witness ==
    /\ ParsedWhole("return 1;")
    /\ ParsedOk
    /\ parseOut[1].res.v[1].k = "Return"
    /\ Shape(parseOut[1].res.v[1].expr[1]) = "1"

(***************************************************************************)
(* Function values                                                         *)
(***************************************************************************)
\* The global name holds a function.
HoldsFunction(name) ==
    /\ Global(name) # None
    /\ Global(name)[1] # None
    /\ Global(name)[1][1].t = "Function"

GlobalValue(name) == Global(name)[1][1]

\* C25, as the design states it: two function values are equal only if they
\* come from the same function definition.
C25_FunctionIdentity ==
    session = "identity" /\ HoldsFunction("a") /\ HoldsFunction("b") =>
        (Value_eq(GlobalValue("a"), GlobalValue("b")) =>
             /\ GlobalValue("a").f.body = GlobalValue("b").f.body
             /\ GlobalValue("a").f.closure = GlobalValue("b").f.closure)

\* a and b hold functions of different names declared in different scopes:
\* they are not equal.
C25_Witness ==
    /\ session = "identity"
    /\ HoldsFunction("a")
    /\ HoldsFunction("b")
    /\ GlobalValue("a").f.closure # GlobalValue("b").f.closure
    /\ ~Value_eq(GlobalValue("a"), GlobalValue("b"))

(***************************************************************************)
(* Blocks                                                                  *)
(***************************************************************************)
\* C26: a block runs in a new child of the current environment: after it,
\* ended or failed, the names it declared are not visible outside, a global
\* it shadowed holds what it held before, and its assignments to names it
\* did not declare remain.
C26_BlockScoping ==
    \A row \in BlockRows :
        line = BlockLine(row.body) =>
            /\ IF row.err THEN IsRuntimeError("TypeError") ELSE outcome = Value(Nil)
            /\ Global("a") = Some(Some(Number(row.a)))
            /\ Global("b") = Some(Some(Number(row.b)))
            /\ Global("c") = None
            /\ Global("h") = None
            /\ envs[1].parent = None
            /\ Len(envs) > 1
            /\ envs[Len(envs)].parent # None

\* The block that shadows a, assigns b, declares c and then fails.
C26_Witness ==
    /\ line = BlockLine("{ var a = 2; b = 4; var c = 5; 1 + nil; b = 6; }")
    /\ IsRuntimeError("TypeError")
    /\ Global("a") = Some(Some(Number(1)))
    /\ Global("b") = Some(Some(Number(4)))
    /\ Global("c") = None
    /\ contains_key(envs[Len(envs)], "c")

(***************************************************************************)
(* Progress of the parser                                                  *)
(***************************************************************************)
\* The parser that returned r from the i-th token on took a token if it
\* succeeded, and none beyond the last.
Progress(r, i, n) == r.err = None => r.i > i /\ r.i <= n + 1

\* Every parser of the cascade makes progress from the i-th of the tokens T.
ProgressAt(T, i) ==
    /\ Progress(declaration(T, i), i, Len(T.toks))
    /\ Progress(statement(T, i), i, Len(T.toks))
    /\ Progress(expression(T, i), i, Len(T.toks))
    /\ \A level \in OrLevel..FactorLevel : Progress(parse_bi_op(T, i, level), i, Len(T.toks))
    /\ Progress(unary(T, i), i, Len(T.toks))
    /\ Progress(call(T, i), i, Len(T.toks))
    /\ Progress(primary(T, i), i, Len(T.toks))

\* C27: on a non-empty token sequence parse finishes; a declaration, a
\* statement and an expression that succeed take at least one token,
\* wherever they start, so every iteration of the loops over them does; parse
\* returns at most as many statements as there are tokens and has taken all
\* tokens when it succeeds.
C27_ParserProgress ==
    parseOut # None /\ parseOut[1].n >= 1 =>
        /\ \A i \in 1..(parseOut[1].n + 1) :
               ProgressAt(TokenIter_new(parseOut[1].tokens), i)
        /\ ParsedOk =>
               /\ parseOut[1].res.i = parseOut[1].n + 1
               /\ Len(parseOut[1].res.v) >= 1
               /\ Len(parseOut[1].res.v) <= parseOut[1].n

\* A for statement with all its clauses and a body, parsed to the end.
C27_Witness ==
    /\ ParsedWhole("for ; a; a = b; print a;")
    /\ ParsedOk
    /\ parseOut[1].res.i = 12
    /\ Len(parseOut[1].res.v) = 1

(***************************************************************************)
(* assign among several names: the chain with two names in play.           *)
(***************************************************************************)
AssignNames == {"a", "b"}

AssignNext ==
    \E e \in 1..Len(envs), key \in AssignNames :
        \/ EnvWrap(e)
        \/ EnvRegister(e, key, Some(Number(1)))
        \/ EnvAssign(e, key, Number(2))

SpecAssign == ReplInit("assign") /\ [][AssignNext]_vars

\* s is the innermost scope on the chain of e that declares key: every
\* declaring scope of the chain is s or an ancestor of s.
InnermostDeclaring(heap, e, key, s) ==
    /\ s \in Scopes(heap, e)
    /\ key \in DOMAIN heap[s].variables
    /\ \A t \in Scopes(heap, e) : key \in DOMAIN heap[t].variables => t \in Scopes(heap, s)

\* The heap is as before but for the entry of key in scope s, which holds value.
OnlyChanged(before, after, s, key, value) ==
    /\ Len(after) = Len(before)
    /\ \A t \in 1..Len(before) :
           /\ after[t].parent = before[t].parent
           /\ DOMAIN after[t].variables = DOMAIN before[t].variables
           /\ \A n \in DOMAIN before[t].variables :
                  after[t].variables[n] =
                      IF t = s /\ n = key THEN Some(value) ELSE before[t].variables[n]

\* C28: assign(name, v) changes at most one binding. When it returns true
\* the entry of name in the innermost declaring scope of the chain holds v and
\* every other scope (outer scopes that declare name too) and every other
\* name is as before; when it returns false no scope of the chain declares
\* name, nothing has changed and no binding was made.
C28_AssignFrame ==
    [][(envOp' # None /\ envOp'[1].op = "assign") =>
          /\ envOp'[1].res =>
                 \E s \in 1..Len(envs) :
                     /\ InnermostDeclaring(envs, envOp'[1].e, envOp'[1].key, s)
                     /\ OnlyChanged(envs, envs', s, envOp'[1].key, envOp'[1].value)
          /\ ~envOp'[1].res =>
                 /\ envs' = envs
                 /\ ~Declared(envs, envOp'[1].e, envOp'[1].key)]_vars

\* An assign from a grandchild that declares nothing has written a in the
\* middle scope; the root's a and b and the middle scope's b are as they were.
C28_Witness ==
    /\ envOp # None /\ envOp[1].op = "assign" /\ envOp[1].e = 3
    /\ envOp[1].key = "a" /\ envOp[1].res
    /\ Len(envs) = 3
    /\ envs[3].parent = Some(2) /\ envs[2].parent = Some(1)
    /\ DOMAIN envs[3].variables = {}
    /\ envs[2].variables = [n \in {"a", "b"} |-> IF n = "a" THEN Some(Number(2)) ELSE Some(Number(1))]
    /\ envs[1].variables = [n \in {"a", "b"} |-> Some(Number(1))]

(***************************************************************************)
(* The value of an assignment                                              *)
(***************************************************************************)
\* C29: an assignment that succeeds evaluates to Nil and not to the value it
\* assigned: after a chained or nested assignment the name written first
\* holds the number and the name written last holds Nil; after
\* `var a; var b; a = b = 1;` b holds 1 and a holds Nil; an assignment
\* statement's value is Nil, `print a = 7;` prints Nil and `var c = a = 8;`
\* leaves Nil in c.
C29_AssignmentIsNil ==
    /\ \A row \in ChainRows :
           line = row.line /\ outcome.kind = "value" =>
               /\ outcome = Value(Nil)
               /\ Global(row.target) = Some(Some(Nil))
               /\ row.inner # row.target => Global(row.inner) = Some(Some(Number(row.n)))
    /\ line = ChainedSequence =>
           /\ outcome = Value(Nil)
           /\ Global("b") = Some(Some(Number(1)))
           /\ Global("a") = Some(Some(Nil))
    /\ line = "a = 6;" /\ outcome.kind = "value" =>
           outcome = Value(Nil) /\ Global("a") = Some(Some(Number(6)))
    /\ line = "print a = 7;" /\ outcome.kind = "value" =>
           out = <<"Nil">> /\ Global("a") = Some(Some(Number(7)))
    /\ line = "var c = a = 8;" /\ outcome.kind = "value" =>
           Global("c") = Some(Some(Nil)) /\ Global("a") = Some(Some(Number(8)))

\* The chained assignment of the two declared names has run.
C29_Witness ==
    /\ line = ChainedSequence
    /\ outcome = Value(Nil)
    /\ Global("b") = Some(Some(Number(1)))
    /\ Global("a") = Some(Some(Nil))

(***************************************************************************)
(* Closures of different calls                                             *)
(***************************************************************************)
\* The i-th call of the line w is the k-th call of its counter.
NthOfItsOwn(w, i) == Cardinality({j \in 1..i : w[j] = w[i]})

====
